---- MODULE Spec2Model ----
(***************************************************************************)
(* Memory and retrieval subsystem of Reflecta.                             *)
(*                                                                         *)
(*   SpecMemory   : the background task of one chat turn                   *)
(*                  (processMemoryInBackground: saveToMemory, then the     *)
(*                  memory graph extract -> validate -> consolidate ->     *)
(*                  save), and direct invocations of the memory graph.     *)
(*   SpecRetrieve : one call of context retrieval                          *)
(*                  (searchRelevantContextEnhanced, and the older          *)
(*                  searchRelevantContext), over a populated store.        *)
(*                                                                         *)
(* The relational store, the embedding model and the LLM are external:     *)
(* every call to them either fails or returns a value drawn from a small   *)
(* set.  Scores and cosines are integers in thousandths.                   *)
(***************************************************************************)
EXTENDS Integers, Sequences, FiniteSets, TLC

(* ------------------------------ bounds --------------------------------- *)

\* longest fact list an LLM call returns
MaxFacts == 3
\* most conflicts one consolidation call returns
MaxConflicts == 1
\* longest finalFacts list the consolidation call is tried with
MaxFinalFacts == 2

(* ------------------------------ domains -------------------------------- *)

Sessions == {"s1", "s2"}
Facts == {"f1", "f2"}
Tasks == {"t1"}

\* a vector is 0 (the empty array []), NaNVec (an array with a non-finite
\* component) or a positive integer naming a direction
NaNVec == -1
Directions == {1, 2, 3, 4, 5}

Stages == <<"extract", "validate", "consolidate", "save">>

SeqsUpTo(S, n) == UNION {[1..k -> S] : k \in 0..n}

Range(s) == {s[i] : i \in 1..Len(s)}

Min(a, b) == IF a <= b THEN a ELSE b

(* --------------------------- vector helpers ---------------------------- *)

\* toPgVectorString: throws on an empty vector and on a non-finite
\* component; otherwise the literal of the vector
toPgVectorStringBroken(v) == [ok |-> v # 0, lit |-> v]

toPgVectorString(v) ==
  IF v = 0 \/ v = NaNVec THEN [ok |-> FALSE, lit |-> 0]
  ELSE [ok |-> TRUE, lit |-> v]

\* cosine of two stored directions, indexed by their distance
CosTable == <<1000, 680, 520, 460, 0>>

Abs(x) == IF x < 0 THEN -x ELSE x

Cosine(v, w) == CosTable[Abs(v - w) + 1]

\* the SQL expression 1 - (vector <=> q) / 2, where <=> is cosine distance
SqlScore(v, w) == 1000 - (1000 - Cosine(v, w)) \div 2

(* ------------------------------ state ---------------------------------- *)

VARIABLES
  \* the relational store
  sessions,     \* chat_sessions rows   [id, by, updatedAt]
  messages,     \* chat_messages rows   [id, sessionId, role, content, by, createdAt]
  msgEmb,       \* message_embeddings   [messageId, sessionId, vector]
  memories,     \* user_memories rows   [id, sessionId, content, by]
  memEmb,       \* memory_embeddings    [memoryId, sessionId, vector]
  nextId,       \* next autoincrement id (shared by both id columns)
  \* one background task per chat turn
  pc,           \* where each task is
  sid,          \* its sessionId
  entry,        \* "background" (processMemoryInBackground) or "graph"
  tx,           \* writes staged by its saveToMemory transaction
  recent,       \* state.recentMessages
  facts,        \* state.extractedFacts
  relevant,     \* consolidateMemories: ids of relevantMemories
  saveIdx,      \* saveMemories: index of the fact the loop is at
  stagesRun,    \* graph nodes started, in order
  stagesDone,   \* graph nodes finished, in order
  llmCalls,     \* LLM calls issued by the graph, in order, with their outcome
  threw,        \* the function or graph node that threw, or "none"
  saveLog,      \* per fact of saveMemories: "saved" (no error),
                \* "embedFailed" (row created, then an error was caught),
                \* "gateRejected" (row created, toPgVectorString threw) or
                \* "createFailed"
  logged,       \* the function that logged an error in the last step
  \* one retrieval call
  rq,           \* record of the retrieval call
  \* one call of smartTruncateMessages
  tr,           \* its arguments and its result
  \* the LocalEmbeddingService singleton and its callers
  svc,
  \* one POST /api/chat request
  req

dbvars == <<sessions, messages, msgEmb, memories, memEmb, nextId>>

taskvars == <<pc, sid, entry, tx, recent, facts, relevant, saveIdx, stagesRun,
              stagesDone, llmCalls, threw, saveLog, logged>>

vars == <<sessions, messages, msgEmb, memories, memEmb, nextId,
          pc, sid, entry, tx, recent, facts, relevant, saveIdx, stagesRun,
          stagesDone, llmCalls, threw, saveLog, logged, rq, tr, svc, req>>

\* the variables of the calls that are not the background task
callvars == <<rq, tr, svc, req>>

\* everything a retrieval call leaves alone
nonrq == <<dbvars, taskvars, tr, svc, req>>

\* a fact that is only white space: z.string() accepts it
BlankFact == " "

\* text.trim()
Trim(text) == IF text = BlankFact THEN "" ELSE text

\* the fact lists the LLM calls are tried with
FactLists == SeqsUpTo(Facts, MaxFacts) \cup {<<BlankFact>>, <<"f1", BlankFact>>}

\* the value an embedText call produces: it throws, or returns a vector
EmbedOutcomes ==
  {[threw |-> TRUE, v |-> 0]}
    \cup {[threw |-> FALSE, v |-> x] : x \in {0, NaNVec} \cup Directions}

\* the direction the embedding model gives a stored text (the model is a
\* function of the text)
DirectionOf(text) ==
  CASE text = "f1" -> 1
    [] text = "f2" -> 2
    [] text = "u" -> 1
    [] text = "a" -> 3
    [] OTHER -> 4

\* embedText(text) for a stored text
EmbedOutcomesOf(text) ==
  IF Trim(text) = "" THEN {[threw |-> FALSE, v |-> 0]}
  ELSE {[threw |-> TRUE, v |-> 0]}
         \cup {[threw |-> FALSE, v |-> x] : x \in {0, NaNVec, DirectionOf(text)}}

\* what a structured-output LLM call for facts produces
StructuredOutcomes ==
  {[kind |-> "fail", facts |-> <<>>]}
    \cup {[kind |-> "ok", facts |-> f] : f \in FactLists}

\* what the free-text fallback call and the parsing of its text produce:
\* "fail" (the call rejected), "nomatch" (no [...] in the text),
\* "parseThrows" (JSON.parse threw), or "ok" with the parsed array
FallbackOutcomes ==
  {[kind |-> k, facts |-> <<>>] : k \in {"fail", "nomatch", "parseThrows"}}
    \cup {[kind |-> "ok", facts |-> f] : f \in FactLists}

(* ------------------------- store primitives ---------------------------- *)

\* ids in ascending order (createdAt order: ids are handed out in time order)
RECURSIVE SortedIds(_)
SortedIds(S) ==
  IF S = {} THEN <<>>
  ELSE LET m == CHOOSE x \in S : \A y \in S : x <= y
       IN <<m>> \o SortedIds(S \ {m})

\* findMany({where: {sessionId}, orderBy: {createdAt: "desc"}, take: k})
TakeNewest(rows, k) ==
  {r \in rows : Cardinality({q \in rows : q.id > r.id}) < k}

\* s.slice(-k)
SliceLast(s, k) ==
  IF Len(s) <= k THEN s ELSE SubSeq(s, Len(s) - k + 1, Len(s))

\* s.reverse()
Reverse(s) == [i \in 1..Len(s) |-> s[Len(s) + 1 - i]]

\* the reading of the database clock: CURRENT_TIMESTAMP is the start of the
\* transaction, and time is counted by the id sequence
Now == nextId

NoTx ==
  [sess |-> {}, msgs |-> {}, emb |-> {}, aborted |-> FALSE, rejected |-> FALSE,
   at |-> 0]

\* prisma.$transaction: the staged writes reach the store only when the
\* callback returns and the commit succeeds; otherwise they are rolled back
PersistedNoRollback(staged, committed) == staged

Persisted(staged, committed) == IF committed THEN staged ELSE NoTx

\* the store after a transaction ended
TxEnd(t, committed) ==
  LET w == Persisted(tx[t], committed) IN
  /\ sessions' = sessions \cup w.sess
  /\ messages' = messages \cup w.msgs
  /\ msgEmb' = msgEmb \cup w.emb
  /\ tx' = [tx EXCEPT ![t] = NoTx]

\* the function whose catch called console.error in this step, or "none"
Log(t, who) == logged' = [logged EXCEPT ![t] = who]

(* --------------------- processMemoryInBackground ----------------------- *)

\* route.ts: after(async () => { await processMemoryInBackground(...) })
Schedule(t) ==
  /\ pc[t] = "idle"
  /\ Log(t, "none")
  /\ \E s \in Sessions :
       /\ sid' = [sid EXCEPT ![t] = s]
       /\ entry' = [entry EXCEPT ![t] = "background"]
  /\ pc' = [pc EXCEPT ![t] = "tx_upsert"]
  /\ UNCHANGED <<dbvars, tx, recent, facts, relevant, saveIdx, stagesRun,
                 stagesDone, llmCalls, threw, saveLog, callvars>>

\* where processMemoryInBackground goes when saveToMemory throws: the await
\* stands before the try, so the function rejects to the caller's catch
AfterSaveFailureSwallowed == "fetch"

AfterSaveFailure == "after_catch"

\* saveToMemory throws: processMemoryInBackground awaits it outside its try,
\* so the rejection reaches the caller
SaveToMemoryFails(t) ==
  /\ TxEnd(t, FALSE)
  /\ threw' = [threw EXCEPT ![t] = "saveToMemory"]
  /\ pc' = [pc EXCEPT ![t] = AfterSaveFailure]
  /\ UNCHANGED <<memories, memEmb>>

\* tx.chatSession.upsert({where: {id}, update: {}, create: {id, title}}):
\* the update branch carries no data, so an existing row is left as it is
\* (updatedAt is filled in only when a write has data); the create branch
\* stamps the new row
upsertSession(rows, s, t, at) ==
  IF \E r \in rows : r.id = s THEN {}
  ELSE {[id |-> s, by |-> t, updatedAt |-> at]}

TxUpsert(t) ==
  /\ pc[t] = "tx_upsert"
  /\ Log(t, "none")
  /\ \E ok \in BOOLEAN :
       IF ok
       THEN /\ tx' = [tx EXCEPT ![t].sess = upsertSession(sessions, sid[t], t, Now),
                                 ![t].at = Now]
            /\ pc' = [pc EXCEPT ![t] = "tx_user"]
            /\ UNCHANGED <<dbvars, threw>>
       ELSE /\ SaveToMemoryFails(t)
            /\ UNCHANGED nextId
  /\ UNCHANGED <<sid, entry, recent, facts, relevant, saveIdx, stagesRun,
                 stagesDone, llmCalls, saveLog, callvars>>

\* tx.chatMessage.create({data: {sessionId, role: "human", content: userMsg}})
TxUser(t) ==
  /\ pc[t] = "tx_user"
  /\ Log(t, "none")
  /\ \E ok \in BOOLEAN :
       IF ok
       THEN /\ tx' = [tx EXCEPT ![t].msgs = @ \cup
                        {[id |-> nextId, sessionId |-> sid[t], role |-> "human",
                          content |-> "u", by |-> t, createdAt |-> tx[t].at]}]
            /\ nextId' = nextId + 1
            /\ pc' = [pc EXCEPT ![t] = "tx_embed"]
            /\ UNCHANGED <<sessions, messages, msgEmb, memories, memEmb, threw>>
       ELSE /\ SaveToMemoryFails(t)
            /\ UNCHANGED nextId
  /\ UNCHANGED <<sid, entry, recent, facts, relevant, saveIdx, stagesRun,
                 stagesDone, llmCalls, saveLog, callvars>>

\* the embedding block of saveToMemory: every error in it is caught and
\* logged; a failed INSERT leaves the PostgreSQL transaction aborted
TxEmbed(t) ==
  /\ pc[t] = "tx_embed"
  /\ \E enabled \in BOOLEAN, e \in EmbedOutcomesOf("u"), insertOk \in BOOLEAN :
       LET um == CHOOSE m \in tx[t].msgs : m.role = "human"
           row == [messageId |-> um.id, sessionId |-> sid[t], vector |-> e.v]
       IN
       IF ~enabled \/ (~e.threw /\ e.v = 0)
       THEN /\ UNCHANGED tx
            /\ Log(t, "none")
       ELSE IF e.threw
       THEN /\ UNCHANGED tx
            /\ Log(t, "saveToMemory")
       ELSE IF ~toPgVectorString(e.v).ok
       THEN /\ tx' = [tx EXCEPT ![t].rejected = TRUE]
            /\ Log(t, "saveToMemory")
       ELSE IF insertOk
       THEN /\ tx' = [tx EXCEPT ![t].emb = @ \cup {row}]
            /\ Log(t, "none")
       ELSE /\ tx' = [tx EXCEPT ![t].aborted = TRUE]
            /\ Log(t, "saveToMemory")
  /\ pc' = [pc EXCEPT ![t] = "tx_ai"]
  /\ UNCHANGED <<dbvars, sid, entry, recent, facts, relevant, saveIdx,
                 stagesRun, stagesDone, llmCalls, threw, saveLog, callvars>>

\* tx.chatMessage.create({data: {sessionId, role: "ai", content: aiMsg}})
TxAi(t) ==
  /\ pc[t] = "tx_ai"
  /\ Log(t, "none")
  /\ \E ok \in BOOLEAN :
       IF ok /\ ~tx[t].aborted
       THEN /\ tx' = [tx EXCEPT ![t].msgs = @ \cup
                        {[id |-> nextId, sessionId |-> sid[t], role |-> "ai",
                          content |-> "a", by |-> t, createdAt |-> tx[t].at]}]
            /\ nextId' = nextId + 1
            /\ pc' = [pc EXCEPT ![t] = "tx_commit"]
            /\ UNCHANGED <<sessions, messages, msgEmb, memories, memEmb, threw>>
       ELSE /\ SaveToMemoryFails(t)
            /\ UNCHANGED nextId
  /\ UNCHANGED <<sid, entry, recent, facts, relevant, saveIdx, stagesRun,
                 stagesDone, llmCalls, saveLog, callvars>>

\* the callback returned: prisma.$transaction commits
TxCommit(t) ==
  /\ pc[t] = "tx_commit"
  /\ Log(t, "none")
  /\ \E ok \in BOOLEAN :
       IF ok
       THEN /\ TxEnd(t, TRUE)
            /\ pc' = [pc EXCEPT ![t] = "fetch"]
            /\ UNCHANGED <<memories, memEmb, threw>>
       ELSE SaveToMemoryFails(t)
  /\ UNCHANGED <<nextId, sid, entry, recent, facts, relevant, saveIdx,
                 stagesRun, stagesDone, llmCalls, saveLog, callvars>>

\* route.ts: the catch around processMemoryInBackground in after()
AfterCatch(t) ==
  /\ pc[t] = "after_catch"
  /\ Log(t, "route")
  /\ pc' = [pc EXCEPT ![t] = "done"]
  /\ UNCHANGED <<dbvars, sid, entry, tx, recent, facts, relevant, saveIdx,
                 stagesRun, stagesDone, llmCalls, threw, saveLog, callvars>>

\* getMemoryForSession(sessionId) then slice(-6); a failure is caught by the
\* try of processMemoryInBackground
SessionMessageIds(s) ==
  SortedIds({m.id : m \in {x \in messages : x.sessionId = s}})

Fetch(t) ==
  /\ pc[t] = "fetch"
  /\ \E ok \in BOOLEAN :
       IF ok
       THEN /\ recent' = [recent EXCEPT ![t] = SliceLast(SessionMessageIds(sid[t]), 6)]
            /\ pc' = [pc EXCEPT ![t] = "extract"]
            /\ Log(t, "none")
       ELSE /\ pc' = [pc EXCEPT ![t] = "done"]
            /\ Log(t, "processMemoryInBackground")
            /\ UNCHANGED recent
  /\ UNCHANGED <<dbvars, sid, entry, tx, facts, relevant, saveIdx, stagesRun,
                 stagesDone, llmCalls, threw, saveLog, callvars>>

(* ---------------------------- memory graph ----------------------------- *)

\* createMemoryGraph: the edges added to the StateGraph
EdgeSkipsValidate(n) ==
  CASE n = "__start__" -> "extract"
    [] n = "extract" -> "consolidate"
    [] n = "validate" -> "consolidate"
    [] n = "consolidate" -> "save"
    [] n = "save" -> "__end__"

Edge(n) ==
  CASE n = "__start__" -> "extract"
    [] n = "extract" -> "validate"
    [] n = "validate" -> "consolidate"
    [] n = "consolidate" -> "save"
    [] n = "save" -> "__end__"

\* graph.invoke() called directly by a client of createMemoryGraph
InvokeGraph(t) ==
  /\ pc[t] = "idle"
  /\ Log(t, "none")
  /\ \E s \in Sessions :
       \E r \in {<<>>, SliceLast(SessionMessageIds(s), 6)} :
         /\ sid' = [sid EXCEPT ![t] = s]
         /\ recent' = [recent EXCEPT ![t] = r]
  /\ entry' = [entry EXCEPT ![t] = "graph"]
  /\ pc' = [pc EXCEPT ![t] = Edge("__start__")]
  /\ UNCHANGED <<dbvars, tx, facts, relevant, saveIdx, stagesRun, stagesDone,
                 llmCalls, threw, saveLog, callvars>>

\* a node returned: the graph follows the node's outgoing edge
NodeReturns(t, node) ==
  /\ stagesDone' = [stagesDone EXCEPT ![t] = Append(@, node)]
  /\ pc' = [pc EXCEPT ![t] = IF Edge(node) = "__end__" THEN "done" ELSE Edge(node)]
  /\ UNCHANGED threw

\* a node threw: graph.invoke rejects.  Under processMemoryInBackground the
\* rejection is caught and logged by its try; a direct caller receives it
NodeThrows(t, node) ==
  /\ UNCHANGED stagesDone
  /\ Log(t, IF entry[t] = "graph" THEN "none" ELSE "processMemoryInBackground")
  /\ pc' = [pc EXCEPT ![t] = "done"]
  /\ threw' = [threw EXCEPT ![t] = node]

NodeStarts(t, node) == stagesRun' = [stagesRun EXCEPT ![t] = Append(@, node)]

\* extractFacts, as a function of what its awaits produce:
\*   lookupOk   - prisma.userMemory.findMany resolved
\*   structured - the outcome of the structured-output call
\*   fallback   - the outcome of the free-text call and of parsing its text
extractFacts(recentMessages, lookupOk, structured, fallback) ==
  IF recentMessages = <<>>
  THEN [threw |-> FALSE, facts |-> <<>>, calls |-> <<>>, log |-> "none"]
  ELSE IF ~lookupOk
  THEN [threw |-> TRUE, facts |-> <<>>, calls |-> <<>>, log |-> "none"]
  ELSE IF structured.kind = "ok"
  THEN [threw |-> FALSE, facts |-> structured.facts,
        calls |-> <<[call |-> "structured", ok |-> TRUE]>>, log |-> "none"]
  ELSE IF fallback.kind \in {"fail", "parseThrows"}
  THEN [threw |-> FALSE, facts |-> <<>>,
        calls |-> <<[call |-> "structured", ok |-> FALSE],
                    [call |-> "fallback", ok |-> fallback.kind # "fail"]>>,
        log |-> "extractFacts"]
  ELSE [threw |-> FALSE, facts |-> fallback.facts,
        calls |-> <<[call |-> "structured", ok |-> FALSE],
                    [call |-> "fallback", ok |-> TRUE]>>,
        log |-> "extractFacts"]

\* node "extract"
Extract(t) ==
  /\ pc[t] = "extract"
  /\ NodeStarts(t, "extract")
  /\ \E lookupOk \in BOOLEAN,
        structured \in StructuredOutcomes, fallback \in FallbackOutcomes :
       LET r == extractFacts(recent[t], lookupOk, structured, fallback) IN
       /\ llmCalls' = [llmCalls EXCEPT ![t] = r.calls]
       /\ IF r.threw
          THEN /\ NodeThrows(t, "extract")
               /\ UNCHANGED facts
          ELSE /\ NodeReturns(t, "extract")
               /\ Log(t, r.log)
               /\ facts' = [facts EXCEPT ![t] = r.facts]
  /\ UNCHANGED <<dbvars, sid, entry, tx, recent, relevant, saveIdx, saveLog, callvars>>

\* validateMemories over the rows its findMany returned
ValidateTake == 20

SessionMemories(s) == {m \in memories : m.sessionId = s}

uniqueFactsKeepAll(extractedFacts, recentMemories) == extractedFacts

uniqueFacts(extractedFacts, recentMemories) ==
  LET existingContent == {m.content : m \in recentMemories}
  IN SelectSeq(extractedFacts, LAMBDA fact : fact \notin existingContent)

\* node "validate"
Validate(t) ==
  /\ pc[t] = "validate"
  /\ NodeStarts(t, "validate")
  /\ IF facts[t] = <<>>
     THEN /\ NodeReturns(t, "validate")
          /\ Log(t, "none")
          /\ UNCHANGED facts
     ELSE \E ok \in BOOLEAN :
            IF ok
            THEN /\ facts' = [facts EXCEPT ![t] =
                      uniqueFacts(@, TakeNewest(SessionMemories(sid[t]), ValidateTake))]
                 /\ NodeReturns(t, "validate")
                 /\ Log(t, "none")
            ELSE /\ NodeThrows(t, "validate")
                 /\ UNCHANGED facts
  /\ UNCHANGED <<dbvars, sid, entry, tx, recent, relevant, saveIdx, llmCalls,
                 saveLog, callvars>>

(* consolidateMemories *)

ConsolidateThreshold == 750
ConsolidateLimit == 10

\* the sets a query "ORDER BY score DESC LIMIT k" over ids can return
\* (rows of equal score at the cut may come back either way)
TopK(ids, score, k) ==
  {S \in SUBSET ids :
     /\ Cardinality(S) = Min(k, Cardinality(ids))
     /\ \A a \in S, b \in ids \ S : score[a] >= score[b]}

\* step 1, the semantic query: memory_embeddings of the session joined with
\* user_memories, score >= 0.75, nearest first, LIMIT 10
SemanticMemoryHits(s, q) ==
  LET hits == {e \in memEmb :
                 /\ e.sessionId = s
                 /\ \E m \in memories : m.id = e.memoryId
                 /\ SqlScore(e.vector, q) >= ConsolidateThreshold}
      ids == {e.memoryId : e \in hits}
      score == [i \in ids |->
                  SqlScore((CHOOSE e \in hits : e.memoryId = i).vector, q)]
  IN TopK(ids, score, ConsolidateLimit)

\* the catch of step 1: the session's 10 newest memories
RecentMemoryIds(s) == {m.id : m \in TakeNewest(SessionMemories(s), ConsolidateLimit)}

\* node "consolidate", up to the choice of relevantMemories
ConsolidateSearch(t) ==
  /\ pc[t] = "consolidate"
  /\ NodeStarts(t, "consolidate")
  /\ IF facts[t] = <<>>
     THEN /\ NodeReturns(t, "consolidate")
          /\ Log(t, "none")
          /\ UNCHANGED relevant
     ELSE \E e \in EmbedOutcomes, queryOk \in BOOLEAN, fallbackOk \in BOOLEAN :
            LET semanticFailed ==
                  \/ e.threw
                  \/ e.v # 0 /\ ~toPgVectorString(e.v).ok
                  \/ e.v # 0 /\ ~queryOk
                choices ==
                  IF semanticFailed THEN {RecentMemoryIds(sid[t])}
                  ELSE IF e.v = 0 THEN {{}}
                  ELSE SemanticMemoryHits(sid[t], e.v)
            IN
            IF semanticFailed /\ ~fallbackOk
            THEN /\ NodeThrows(t, "consolidate")
                 /\ UNCHANGED relevant
            ELSE \E rel \in choices :
                   /\ Log(t, IF semanticFailed THEN "consolidateMemories" ELSE "none")
                   /\ IF rel = {}
                      THEN /\ NodeReturns(t, "consolidate")
                           /\ UNCHANGED relevant
                      ELSE /\ relevant' = [relevant EXCEPT ![t] = rel]
                            /\ pc' = [pc EXCEPT ![t] = "consolidate_llm"]
                           /\ UNCHANGED <<stagesDone, threw>>
  /\ UNCHANGED <<dbvars, sid, entry, tx, recent, facts, saveIdx, llmCalls,
                 saveLog, callvars>>

\* what the structured consolidation call produces
Conflicts ==
  [oldMemoryId : {m.id : m \in memories} \cup {0}, newContent : Facts]

ConsolidationOutcomes ==
  {[kind |-> "fail", conflicts |-> <<>>, finalFacts |-> <<>>]}
    \cup {[kind |-> "ok", conflicts |-> c, finalFacts |-> f] :
            c \in SeqsUpTo(Conflicts, MaxConflicts),
            f \in SeqsUpTo(Facts, MaxFinalFacts)}

\* prisma.userMemory.update({where: {id}, data: {content}}) for each conflict
\* in turn; an update that fails (no such row, or the store) is skipped
RECURSIVE ApplyConflicts(_, _, _, _)
ApplyConflicts(mems, conflicts, fails, i) ==
  IF i > Len(conflicts) THEN mems
  ELSE LET c == conflicts[i]
           upd == IF i \in fails THEN mems
                  ELSE {IF m.id = c.oldMemoryId
                        THEN [m EXCEPT !.content = c.newContent] ELSE m :
                        m \in mems}
       IN ApplyConflicts(upd, conflicts, fails, i + 1)

\* step 2 of consolidateMemories, as a function of the LLM call's outcome
consolidateDropsOnError(extractedFacts, mems, out, fails) ==
  IF out.kind = "fail"
  THEN [facts |-> <<>>, mems |-> mems, log |-> "consolidateMemories"]
  ELSE [facts |-> out.finalFacts,
        mems |-> ApplyConflicts(mems, out.conflicts, fails, 1),
        log |-> IF fails = {} THEN "none" ELSE "consolidateMemories"]

consolidateMemories(extractedFacts, mems, out, fails) ==
  IF out.kind = "fail"
  THEN [facts |-> extractedFacts, mems |-> mems, log |-> "consolidateMemories"]
  ELSE [facts |-> out.finalFacts,
        mems |-> ApplyConflicts(mems, out.conflicts, fails, 1),
        log |-> IF fails = {} THEN "none" ELSE "consolidateMemories"]

\* memory_embeddings after the conflict updates: userMemory.update writes
\* user_memories only, no statement touches the embedding of an updated row
EmbeddingsAfterUpdateDropsStale(emb, before, after) ==
  {e \in emb : \A m \in before : m.id = e.memoryId => m \in after}

EmbeddingsAfterUpdate(emb, before, after) == emb

\* node "consolidate", from the LLM call on
ConsolidateLLM(t) ==
  /\ pc[t] = "consolidate_llm"
  /\ \E out \in ConsolidationOutcomes :
       \E fails \in SUBSET {i \in 1..Len(out.conflicts) :
                              \E m \in memories : m.id = out.conflicts[i].oldMemoryId} :
         LET r == consolidateMemories(facts[t], memories, out,
                    fails \cup {i \in 1..Len(out.conflicts) :
                                  \A m \in memories : m.id # out.conflicts[i].oldMemoryId})
         IN /\ facts' = [facts EXCEPT ![t] = r.facts]
            /\ memories' = r.mems
            /\ memEmb' = EmbeddingsAfterUpdate(memEmb, memories, r.mems)
            /\ Log(t, r.log)
            /\ llmCalls' = [llmCalls EXCEPT ![t] =
                  Append(@, [call |-> "consolidate", ok |-> out.kind = "ok"])]
  /\ relevant' = [relevant EXCEPT ![t] = {}]
  /\ NodeReturns(t, "consolidate")
  /\ UNCHANGED <<sessions, messages, msgEmb, nextId, sid, entry, tx,
                 recent, saveIdx, stagesRun, saveLog, callvars>>

(* saveMemories *)

\* one iteration of the loop of saveMemories, as a function of what its
\* awaits produce; the try around the body catches every failure
saveOneRethrows(fact, createOk, e, insertOk) ==
  IF ~createOk
  THEN [row |-> FALSE, emb |-> FALSE, tag |-> "createFailed", threw |-> TRUE]
  ELSE IF e.threw
  THEN [row |-> TRUE, emb |-> FALSE, tag |-> "embedFailed", threw |-> TRUE]
  ELSE IF e.v = 0
  THEN [row |-> TRUE, emb |-> FALSE, tag |-> "saved", threw |-> FALSE]
  ELSE IF ~toPgVectorString(e.v).ok
  THEN [row |-> TRUE, emb |-> FALSE, tag |-> "gateRejected", threw |-> TRUE]
  ELSE IF ~insertOk
  THEN [row |-> TRUE, emb |-> FALSE, tag |-> "embedFailed", threw |-> TRUE]
  ELSE [row |-> TRUE, emb |-> TRUE, tag |-> "saved", threw |-> FALSE]

saveOne(fact, createOk, e, insertOk) ==
  IF ~createOk
  THEN [row |-> FALSE, emb |-> FALSE, tag |-> "createFailed", threw |-> FALSE]
  ELSE IF e.threw
  THEN [row |-> TRUE, emb |-> FALSE, tag |-> "embedFailed", threw |-> FALSE]
  ELSE IF e.v = 0
  THEN [row |-> TRUE, emb |-> FALSE, tag |-> "saved", threw |-> FALSE]
  ELSE IF ~toPgVectorString(e.v).ok
  THEN [row |-> TRUE, emb |-> FALSE, tag |-> "gateRejected", threw |-> FALSE]
  ELSE IF ~insertOk
  THEN [row |-> TRUE, emb |-> FALSE, tag |-> "embedFailed", threw |-> FALSE]
  ELSE [row |-> TRUE, emb |-> TRUE, tag |-> "saved", threw |-> FALSE]

\* node "save": entry, and the early return on an empty list
SaveEnter(t) ==
  /\ pc[t] = "save"
  /\ Log(t, "none")
  /\ NodeStarts(t, "save")
  /\ IF facts[t] = <<>>
     THEN /\ NodeReturns(t, "save")
          /\ UNCHANGED saveIdx
     ELSE /\ pc' = [pc EXCEPT ![t] = "save_loop"]
          /\ saveIdx' = [saveIdx EXCEPT ![t] = 1]
          /\ UNCHANGED <<stagesDone, threw>>
  /\ UNCHANGED <<dbvars, sid, entry, tx, recent, facts, relevant, llmCalls,
                 saveLog, callvars>>

\* node "save": one iteration of for (const fact of extractedFacts)
SaveFact(t) ==
  /\ pc[t] = "save_loop"
  /\ saveIdx[t] <= Len(facts[t])
  /\ \E createOk \in BOOLEAN, insertOk \in BOOLEAN,
        e \in EmbedOutcomesOf(facts[t][saveIdx[t]]) :
       LET fact == facts[t][saveIdx[t]]
           fk == \E r \in sessions : r.id = sid[t]
           r == saveOne(fact, createOk /\ fk, e, insertOk)
           memory == [id |-> nextId, sessionId |-> sid[t], content |-> fact,
                      by |-> t]
       IN /\ memories' = IF r.row THEN memories \cup {memory} ELSE memories
          /\ nextId' = IF r.row THEN nextId + 1 ELSE nextId
          /\ memEmb' = IF r.emb
                       THEN memEmb \cup {[memoryId |-> memory.id,
                                          sessionId |-> sid[t], vector |-> e.v]}
                       ELSE memEmb
          /\ saveLog' = [saveLog EXCEPT ![t] = Append(@, r.tag)]
          /\ IF r.threw
             THEN /\ NodeThrows(t, "save")
                  /\ UNCHANGED saveIdx
             ELSE /\ saveIdx' = [saveIdx EXCEPT ![t] = @ + 1]
                  /\ Log(t, IF r.tag = "saved" THEN "none"
                             ELSE "saveMemories")
                  /\ UNCHANGED <<pc, stagesDone, threw>>
  /\ UNCHANGED <<sessions, messages, msgEmb, sid, entry, tx, recent, facts,
                 relevant, stagesRun, llmCalls, callvars>>

\* node "save": the loop is over, return {}
SaveReturn(t) ==
  /\ pc[t] = "save_loop"
  /\ Log(t, "none")
  /\ saveIdx[t] > Len(facts[t])
  /\ NodeReturns(t, "save")
  /\ UNCHANGED <<dbvars, sid, entry, tx, recent, facts, relevant, saveIdx,
                 stagesRun, llmCalls, saveLog, callvars>>

(* ------------------------- SpecMemory ---------------------------------- *)

\* rows earlier turns left in the store: memories with and without an
\* embedding, in two sessions, and one earlier exchange
SeedMemories ==
  {[id |-> 1, sessionId |-> "s1", content |-> "f1", by |-> "seed"],
   [id |-> 2, sessionId |-> "s2", content |-> "f2", by |-> "seed"],
   [id |-> 3, sessionId |-> "s1", content |-> "f2", by |-> "seed"]}

SeedMemEmb ==
  {[memoryId |-> 1, sessionId |-> "s1", vector |-> 1],
   [memoryId |-> 2, sessionId |-> "s2", vector |-> 2]}

SeedMessages ==
  {[id |-> 4, sessionId |-> "s1", role |-> "human", content |-> "u", by |-> "seed",
    createdAt |-> 4],
   [id |-> 5, sessionId |-> "s1", role |-> "ai", content |-> "a", by |-> "seed",
    createdAt |-> 4]}

SeedMsgEmb == {[messageId |-> 4, sessionId |-> "s1", vector |-> 1]}

FirstFreeId == Cardinality(SeedMemories) + Cardinality(SeedMessages) + 1

RqOff == [pc |-> "off"]

TrOff == [pc |-> "off"]

SvcOff == [pc |-> "off"]

ReqOff == [pc |-> "off"]

\* the calls that take no part in a behaviour
OtherCallsOff == tr = TrOff /\ svc = SvcOff /\ req = ReqOff

\* no background task exists
TasksOff ==
  /\ pc = [t \in Tasks |-> "off"]
  /\ sid = [t \in Tasks |-> "s1"]
  /\ entry = [t \in Tasks |-> "none"]
  /\ tx = [t \in Tasks |-> NoTx]
  /\ recent = [t \in Tasks |-> <<>>]
  /\ facts = [t \in Tasks |-> <<>>]
  /\ relevant = [t \in Tasks |-> {}]
  /\ saveIdx = [t \in Tasks |-> 0]
  /\ stagesRun = [t \in Tasks |-> <<>>]
  /\ stagesDone = [t \in Tasks |-> <<>>]
  /\ llmCalls = [t \in Tasks |-> <<>>]
  /\ threw = [t \in Tasks |-> "none"]
  /\ saveLog = [t \in Tasks |-> <<>>]
  /\ logged = [t \in Tasks |-> "none"]

\* an empty store
StoreEmpty ==
  /\ sessions = {}
  /\ messages = {}
  /\ msgEmb = {}
  /\ memories = {}
  /\ memEmb = {}
  /\ nextId = 1

InitTasks ==
  /\ pc = [t \in Tasks |-> "idle"]
  /\ sid = [t \in Tasks |-> "s1"]
  /\ entry = [t \in Tasks |-> "none"]
  /\ tx = [t \in Tasks |-> NoTx]
  /\ recent = [t \in Tasks |-> <<>>]
  /\ facts = [t \in Tasks |-> <<>>]
  /\ relevant = [t \in Tasks |-> {}]
  /\ saveIdx = [t \in Tasks |-> 0]
  /\ stagesRun = [t \in Tasks |-> <<>>]
  /\ stagesDone = [t \in Tasks |-> <<>>]
  /\ llmCalls = [t \in Tasks |-> <<>>]
  /\ threw = [t \in Tasks |-> "none"]
  /\ saveLog = [t \in Tasks |-> <<>>]
  /\ logged = [t \in Tasks |-> "none"]

InitMemory ==
  /\ \E k \in 0..Cardinality(SeedMemories) :
       LET mems == {m \in SeedMemories : m.id <= k}
           msgs == SeedMessages
       IN
       /\ memories = mems
       /\ memEmb = {e \in SeedMemEmb : \E m \in mems : m.id = e.memoryId}
       /\ messages = msgs
       /\ msgEmb = {e \in SeedMsgEmb : \E m \in msgs : m.id = e.messageId}
       /\ sessions = {[id |-> s, by |-> "seed", updatedAt |-> 4] :
                        s \in {m.sessionId : m \in mems \cup msgs}}
  /\ nextId = FirstFreeId
  /\ InitTasks
  /\ rq = RqOff
  /\ OtherCallsOff

NextMemory ==
  \E t \in Tasks :
    \/ Schedule(t)
    \/ TxUpsert(t)
    \/ TxUser(t)
    \/ TxEmbed(t)
    \/ TxAi(t)
    \/ TxCommit(t)
    \/ AfterCatch(t)
    \/ Fetch(t)
    \/ InvokeGraph(t)
    \/ Extract(t)
    \/ Validate(t)
    \/ ConsolidateSearch(t)
    \/ ConsolidateLLM(t)
    \/ SaveEnter(t)
    \/ SaveFact(t)
    \/ SaveReturn(t)

SpecMemory == InitMemory /\ [][NextMemory]_vars

(* ------------------- properties of the memory pipeline ----------------- *)

IsPrefix(a, b) == Len(a) <= Len(b) /\ a = SubSeq(b, 1, Len(a))

\* graph.invoke resolved: the graph ran and no node threw
GraphReturned(t) ==
  pc[t] = "done" /\ threw[t] = "none" /\ stagesRun[t] # <<>>

\* C1: the stages run in the fixed order extract, validate, consolidate,
\* save: the stages started so far are a prefix of that order (each at most
\* once, none skipped, never back to an earlier one), a stage starts only
\* when every stage before it has finished, and an invocation that returns
\* has run all four, also with an empty fact list.  (A node that throws ends
\* the invocation there: graph.invoke rejects.)
C1_StagesInOrder ==
  \A t \in Tasks :
    /\ IsPrefix(stagesRun[t], Stages)
    /\ IsPrefix(stagesDone[t], stagesRun[t])
    /\ Len(stagesRun[t]) <= Len(stagesDone[t]) + 1
    /\ pc[t] \in {"extract", "validate", "consolidate", "save"}
         => stagesDone[t] = stagesRun[t]
    /\ GraphReturned(t) => stagesDone[t] = Stages

\* an invocation whose fact list became empty still ran all four stages
C1_Witness ==
  \E t \in Tasks :
    /\ GraphReturned(t)
    /\ stagesDone[t] = Stages
    /\ facts[t] = <<>>
    /\ llmCalls[t] # <<>>

\* C2: saveMemories never throws; when it returns every fact of the list
\* has been processed, and every fact whose row was created has its Memory
\* row in the store, whatever failed for the other facts.
C2_SaveIsolatesFailures ==
  \A t \in Tasks :
    /\ threw[t] # "save"
    /\ pc[t] = "save_loop" => Len(saveLog[t]) = saveIdx[t] - 1
    /\ stagesDone[t] = Stages =>
         /\ Len(saveLog[t]) = Len(facts[t])
         /\ \A i \in 1..Len(facts[t]) :
              saveLog[t][i] # "createFailed" =>
                \E m \in memories :
                  /\ m.by = t
                  /\ m.content = facts[t][i]
                  /\ m.sessionId = sid[t]
         /\ Cardinality({m \in memories : m.by = t})
              = Cardinality({i \in 1..Len(facts[t]) : saveLog[t][i] # "createFailed"})

\* three facts, the second failed after its row was created: the rows of
\* facts 1 and 3 exist, and so do their embeddings
C2_Witness ==
  \E t \in Tasks :
    /\ stagesDone[t] = Stages
    /\ threw[t] = "none"
    /\ saveLog[t] = <<"saved", "embedFailed", "saved">>
    /\ facts[t][1] # facts[t][2]
    /\ \E m1, m3 \in memories :
         /\ m1.by = t /\ m3.by = t /\ m1.id < m3.id
         /\ m1.content = facts[t][1] /\ m3.content = facts[t][3]
         /\ \E e \in memEmb : e.memoryId = m3.id

\* C3: with recentMessages non-empty, extractFacts never throws; the
\* fallback call is issued at most once and only after the structured call
\* failed; when both fail the result is no facts.
C3_ExtractNeverThrows ==
  \A t \in Tasks :
    /\ threw[t] # "extract"
    /\ \A i \in 1..Len(llmCalls[t]) :
         llmCalls[t][i].call = "fallback" =>
           /\ i = 2
           /\ llmCalls[t][1] = [call |-> "structured", ok |-> FALSE]
    /\ (/\ pc[t] = "validate"
        /\ Len(llmCalls[t]) = 2
        /\ ~llmCalls[t][2].ok) => facts[t] = <<>>

\* C4: a step in which the consolidation call fails leaves every Memory row
\* as it was and hands the task's fact list on to save unchanged.
C4_ConsolidateFailsOpen ==
  [][\A t \in Tasks :
       (/\ pc[t] = "consolidate_llm"
        /\ pc'[t] # "consolidate_llm"
        /\ llmCalls'[t][Len(llmCalls'[t])] = [call |-> "consolidate", ok |-> FALSE])
       => /\ memories' = memories
          /\ memEmb' = memEmb
          /\ facts'[t] = facts[t]
          /\ pc'[t] = "save"]_vars

\* the consolidation call failed with facts to pass on and memories at hand
C4_Witness ==
  \E t \in Tasks :
    /\ pc[t] = "save"
    /\ llmCalls[t] # <<>>
    /\ llmCalls[t][Len(llmCalls[t])] = [call |-> "consolidate", ok |-> FALSE]
    /\ Len(facts[t]) >= 2
    /\ SessionMemories(sid[t]) # {}

\* C5: processMemoryInBackground never rejects to its caller (the catch of
\* the route's after() callback never runs).
C5_BackgroundNeverRejects ==
  \A t \in Tasks : pc[t] # "after_catch"

\* rows the saveToMemory call of task t wrote that are in the store
RowsBy(t) ==
  [sess |-> {r \in sessions : r.by = t},
   msgs |-> {m \in messages : m.by = t},
   emb |-> {e \in msgEmb : \E m \in tx[t].msgs \cup messages :
                             m.by = t /\ m.id = e.messageId}]

\* C10: the persist step is atomic.  No turn is ever stored without its
\* session row and no message embedding without its turn; while the
\* transaction runs and after it failed none of its rows is in the store;
\* after it succeeded the session row and both turns are.
C10_PersistAtomic ==
  /\ \A m \in messages : \E r \in sessions : r.id = m.sessionId
  /\ \A e \in msgEmb : \E m \in messages : m.id = e.messageId
  /\ \A t \in Tasks :
       entry[t] = "background" =>
         IF pc[t] \in {"tx_upsert", "tx_user", "tx_embed", "tx_ai", "tx_commit"}
              \/ threw[t] = "saveToMemory"
         THEN RowsBy(t) = [sess |-> {}, msgs |-> {}, emb |-> {}]
         ELSE /\ \E r \in sessions : r.id = sid[t]
              /\ {m.role : m \in RowsBy(t).msgs} = {"human", "ai"}
              /\ Cardinality(RowsBy(t).msgs) = 2
              /\ \A m \in RowsBy(t).msgs : m.sessionId = sid[t]

\* a transaction that had staged the session row, the user turn and its
\* embedding failed
C10_Witness ==
  \E t \in Tasks :
    /\ threw[t] = "saveToMemory"
    /\ nextId > FirstFreeId
    /\ \A r \in sessions : r.id # sid[t]

(* ============================ retrieval ================================ *)

\* most rows of each table in the store a retrieval call runs against
MaxStored == 6

\* whitespace-token counts of the queries tried (0: blank after sanitizing)
WordCounts == {0, 1, 5, 6, 15, 16, 20}

\* analyzeQueryComplexity (the version in force, with compression)
analyzeQueryComplexity(tokenCount) ==
  IF tokenCount <= 5
  THEN [complexity |-> "simple", semanticThreshold |-> 780,
        keywordThreshold |-> 150, maxResults |-> 2]
  ELSE IF tokenCount <= 15
  THEN [complexity |-> "medium", semanticThreshold |-> 750,
        keywordThreshold |-> 100, maxResults |-> 4]
  ELSE [complexity |-> "complex", semanticThreshold |-> 720,
        keywordThreshold |-> 80, maxResults |-> 6]

\* the stored texts of the retrieval store and what the external services
\* compute from them: the embedding direction, ts_rank against the query of
\* the call (0: no match), and the length in characters
Texts == <<"c1", "c2", "c3", "c4", "c5", "c6", "c7", "c8">>

TextIndex(c) == CHOOSE i \in 1..Len(Texts) : Texts[i] = c

TextDirection(c) == <<1, 1, 2, 2, 5, 3, 4, 1>>[TextIndex(c)]

\* ts_rank of a text against the tsquery of the call, which joins the
\* query's keywords with OR: a one-word query matches fewer texts than a
\* query of several words
KeywordRank(c, words) ==
  IF words = 1 THEN <<200, 0, 120, 90, 300, 160, 0, 0>>[TextIndex(c)]
  ELSE <<200, 180, 170, 160, 300, 160, 90, 120>>[TextIndex(c)]

CharLen(c) == <<4000, 3000, 4000, 4000, 5000, 20, 10, 10>>[TextIndex(c)]

\* rows of chat_messages / message_embeddings the store may hold; message 6
\* has no embedding
MessageSession(i) == <<"s1", "s2", "s2", "s2", "s2", "s2", "s1", "s2">>[i]

StoredMessage(i) ==
  [id |-> i, sessionId |-> MessageSession(i),
   role |-> IF i % 3 = 0 THEN "ai" ELSE "human", content |-> Texts[i],
   by |-> "seed", createdAt |-> i]

StoredMsgEmb(i) ==
  [messageId |-> i, sessionId |-> StoredMessage(i).sessionId,
   vector |-> TextDirection(Texts[i])]

\* rows of user_memories / memory_embeddings
StoredMemory(i) ==
  [id |-> i, sessionId |-> IF i % 2 = 1 THEN "s1" ELSE "s2",
   content |-> Texts[i], by |-> "seed"]

StoredMemEmb(i) ==
  [memoryId |-> i, sessionId |-> StoredMemory(i).sessionId,
   vector |-> TextDirection(Texts[i])]

MessageById(i) == CHOOSE m \in messages : m.id = i

MemoryById(i) == CHOOSE m \in memories : m.id = i

(* result orders *)

\* the sequences "ORDER BY score DESC" can return over ids
RECURSIVE SortedDesc(_, _)
SortedDesc(ids, score) ==
  IF ids = {} THEN {<<>>}
  ELSE LET top == {a \in ids : \A b \in ids : score[a] >= score[b]}
       IN UNION {{<<a>> \o rest : rest \in SortedDesc(ids \ {a}, score)} :
                 a \in top}

\* "ORDER BY score DESC LIMIT k"
Limit(seqs, k) == {SubSeq(q, 1, Min(k, Len(q))) : q \in seqs}

\* "LIMIT k" with no ORDER BY: any k of the rows
AnySubset(ids, k) ==
  {S \in SUBSET ids : Cardinality(S) = Min(k, Cardinality(ids))}

(* searchMessagesHybrid *)

\* the session filter of the three message queries (session_id != sessionId)
OtherSessionNoFilter(rowSession, sessionId) == TRUE

OtherSession(rowSession, sessionId) == rowSession # sessionId

\* semantic_search CTE: embeddings of other sessions at or above the
\* threshold, nearest first, LIMIT maxResults * 2; as id -> score
SemanticSide(sessionId, q, params) ==
  LET hits == {e \in msgEmb :
                 /\ OtherSession(e.sessionId, sessionId)
                 /\ SqlScore(e.vector, q) >= params.semanticThreshold}
      ids == {e.messageId : e \in hits}
      score == [i \in ids |->
                  SqlScore((CHOOSE e \in hits : e.messageId = i).vector, q)]
  IN {[i \in S |-> score[i]] : S \in TopK(ids, score, params.maxResults * 2)}

\* keyword_search CTE: messages of other sessions matching the tsquery with
\* rank at or above the threshold, LIMIT maxResults * 2; as id -> rank
KeywordSide(sessionId, query, params) ==
  LET hits == {m \in messages :
                 /\ OtherSession(m.sessionId, sessionId)
                 /\ KeywordRank(m.content, query) > 0
                 /\ KeywordRank(m.content, query) >= params.keywordThreshold}
      ids == {m.id : m \in hits}
  IN {[i \in S |-> KeywordRank(MessageById(i).content, query)] :
        S \in AnySubset(ids, params.maxResults * 2)}

\* combined CTE: FULL OUTER JOIN, 0.7 * semantic + 0.3 * keyword with a
\* missing side counted as 0 (in ten-thousandths)
CombinedScore(sem, kw, i) ==
  7 * (IF i \in DOMAIN sem THEN sem[i] ELSE 0)
    + 3 * (IF i \in DOMAIN kw THEN kw[i] ELSE 0)

\* a row of the combined CTE: the message (its role and content are read
\* through id) with its three score columns
CombinedRow(sem, kw, i) ==
  [id |-> i,
   semantic_score |-> IF i \in DOMAIN sem THEN sem[i] ELSE 0,
   keyword_rank |-> IF i \in DOMAIN kw THEN kw[i] ELSE 0,
   combined_score |-> CombinedScore(sem, kw, i)]

\* the hybrid query: JOIN chat_messages, ORDER BY combined_score DESC,
\* LIMIT maxResults; the possible result sequences of rows
HybridQuery(sessionId, q, query, params) ==
  UNION {
    LET ids == {i \in DOMAIN sem \cup DOMAIN kw :
                  \E m \in messages : m.id = i}
        score == [i \in ids |-> CombinedScore(sem, kw, i)]
    IN {[k \in 1..Len(res) |-> CombinedRow(sem, kw, res[k])] :
          res \in Limit(SortedDesc(ids, score), params.maxResults)} :
    sem \in SemanticSide(sessionId, q, params),
    kw \in KeywordSide(sessionId, query, params)}

\* the threshold and the limit of the semantic-only fallback query
FallbackParamsFixed(params) == [threshold |-> 600, limit |-> params.maxResults * 2]

FallbackParams(params) ==
  [threshold |-> params.semanticThreshold, limit |-> params.maxResults]

\* the fallback query: embeddings of other sessions joined with their
\* messages, at or above the threshold, nearest first, LIMIT maxResults
SemanticOnlyQuery(sessionId, q, params) ==
  LET fp == FallbackParams(params)
      hits == {e \in msgEmb :
                 /\ OtherSession(e.sessionId, sessionId)
                 /\ \E m \in messages : m.id = e.messageId
                 /\ SqlScore(e.vector, q) >= fp.threshold}
      ids == {e.messageId : e \in hits}
      score == [i \in ids |->
                  SqlScore((CHOOSE e \in hits : e.messageId = i).vector, q)]
  IN Limit(SortedDesc(ids, score), fp.limit)

(* searchMemories *)

MemoryThreshold == 800

\* ceil(maxResults / 2)
MemoryLimit(params) == (params.maxResults + 1) \div 2

\* memory_embeddings joined with user_memories, score >= 0.80, nearest
\* first, LIMIT maxResults; every session's memories
MemoryQuery(q, limit) ==
  LET hits == {e \in memEmb :
                 /\ \E m \in memories : m.id = e.memoryId
                 /\ SqlScore(e.vector, q) >= MemoryThreshold}
      ids == {e.memoryId : e \in hits}
      score == [i \in ids |->
                  SqlScore((CHOOSE e \in hits : e.memoryId = i).vector, q)]
  IN Limit(SortedDesc(ids, score), limit)

(* context messages *)

\* rowToMessage: role "human" gives a HumanMessage, anything else an AIMessage
rowToMessage(row) ==
  [kind |-> "message", type |-> IF row.role = "human" THEN "human" ELSE "ai",
   id |-> row.id, mems |-> <<>>]

\* the SystemMessage "Recall these facts about the user/project:\n- ..."
Digest(memoryIds) ==
  [kind |-> "digest", type |-> "system", id |-> 0, mems |-> memoryIds]

\* the SystemMessage "Relevant Context (Compressed):\n..."
Compressed == [kind |-> "compressed", type |-> "system", id |-> 0, mems |-> <<>>]

MessageDoc(i) == rowToMessage(MessageById(i))

\* contextMessages: the digest when memories matched, then the messages
Assemble(memoryIds, messageIds) ==
  (IF Len(memoryIds) > 0 THEN <<Digest(memoryIds)>> ELSE <<>>)
    \o [i \in 1..Len(messageIds) |-> MessageDoc(messageIds[i])]

RECURSIVE SumSeq(_)
SumSeq(q) == IF q = <<>> THEN 0 ELSE q[1] + SumSeq(Tail(q))

DigestHeaderChars == 43

MemoryChars(i) == CharLen(MemoryById(i).content)

\* doc.content.length
DocChars(doc) ==
  IF doc.kind = "message" THEN CharLen(MessageById(doc.id).content)
  ELSE IF doc.kind = "digest"
  THEN DigestHeaderChars + SumSeq([i \in 1..Len(doc.mems) |-> MemoryChars(doc.mems[i])])
         + 2 * Len(doc.mems) + (Len(doc.mems) - 1)
  ELSE 0

TotalChars(docs) == SumSeq([i \in 1..Len(docs) |-> DocChars(docs[i])])

CompressCutOver == 8000

\* compressContext up to its LLM call: the docs go back unchanged below
\* the cut-over
NeedsCompression(docs) == ~(TotalChars(docs) < CompressCutOver)

(* the catch blocks of searchRelevantContextEnhanced *)

\* catch (embeddingError): log, return []
EmbeddingCatch == [threw |-> FALSE, result |-> <<>>]

\* catch (error) around the searches and the compression: log, return []
SearchCatchRethrows == [threw |-> TRUE, result |-> <<>>]

SearchCatch == [threw |-> FALSE, result |-> <<>>]

(* one call of retrieval *)

RqIdle ==
  [pc |-> "idle", variant |-> "enhanced", sessionId |-> "s1", words |-> 0,
   vector |-> 0, embedThrew |-> FALSE,
   hyb |-> "none", hybridFailed |-> FALSE, hrows |-> <<>>, hres |-> <<>>,
   mem |-> "none", mres |-> <<>>,
   assembled |-> FALSE, docs |-> <<>>, result |-> <<>>, threw |-> FALSE]

Return(r, out) ==
  [r EXCEPT !.pc = "done", !.result = out.result, !.threw = out.threw]

\* searchRelevantContextEnhanced / searchRelevantContext called: the config
\* and blank-message early returns
RCall ==
  /\ rq.pc = "idle"
  /\ \E variant \in {"enhanced", "legacy"}, s \in Sessions, w \in WordCounts,
        enabled \in BOOLEAN :
       LET r == [rq EXCEPT !.variant = variant, !.sessionId = s, !.words = w]
       IN rq' = IF ~enabled \/ w = 0
                THEN Return(r, [threw |-> FALSE, result |-> <<>>])
                ELSE [r EXCEPT !.pc = "embed"]
  /\ UNCHANGED nonrq

\* embedText(sanitized) settles.  Enhanced: on a vector both searches are
\* started (each runs toPgVectorString before its first await)
REmbed ==
  /\ rq.pc = "embed"
  /\ \E e \in EmbedOutcomes :
       rq' =
         IF e.threw
         THEN IF rq.variant = "enhanced"
              THEN Return([rq EXCEPT !.embedThrew = TRUE], EmbeddingCatch)
              ELSE [rq EXCEPT !.embedThrew = TRUE, !.pc = "legacy_fallback"]
         ELSE IF e.v = 0
         THEN Return(rq, [threw |-> FALSE, result |-> <<>>])
         ELSE IF rq.variant = "legacy"
         THEN [rq EXCEPT !.vector = e.v, !.pc = "legacy_query"]
         ELSE LET started == IF toPgVectorString(e.v).ok THEN "query"
                             ELSE "rejected"
              IN [rq EXCEPT !.vector = e.v, !.pc = "search",
                            !.hyb = started, !.mem = started]
  /\ UNCHANGED nonrq

Params == analyzeQueryComplexity(rq.words)

\* searchMessagesHybrid: the hybrid query settles; results.map(rowToMessage)
\* keeps the role and the content of each row, in the order of the rows
RHybridQuery ==
  /\ rq.hyb = "query"
  /\ \E ok \in BOOLEAN :
       IF ok
       THEN \E rows \in HybridQuery(rq.sessionId, rq.vector, rq.words, Params) :
              rq' = [rq EXCEPT !.hyb = "fulfilled", !.hrows = rows,
                               !.hres = [k \in 1..Len(rows) |-> rows[k].id]]
       ELSE rq' = [rq EXCEPT !.hyb = "fallback", !.hybridFailed = TRUE]
  /\ UNCHANGED nonrq

\* searchMessagesHybrid: the semantic-only query of the catch settles
RHybridFallback ==
  /\ rq.hyb = "fallback"
  /\ \E ok \in BOOLEAN :
       IF ok
       THEN \E res \in SemanticOnlyQuery(rq.sessionId, rq.vector, Params) :
              rq' = [rq EXCEPT !.hyb = "fulfilled", !.hres = res]
       ELSE rq' = [rq EXCEPT !.hyb = "rejected"]
  /\ UNCHANGED nonrq

\* searchMemories: its query settles
RMemQuery ==
  /\ rq.mem = "query"
  /\ \E ok \in BOOLEAN :
       IF ok
       THEN \E res \in MemoryQuery(rq.vector, MemoryLimit(Params)) :
              rq' = [rq EXCEPT !.mem = "fulfilled", !.mres = res]
       ELSE rq' = [rq EXCEPT !.mem = "rejected"]
  /\ UNCHANGED nonrq

\* await Promise.all([...]) rejects as soon as one search rejected
RJoinRejected ==
  /\ rq.pc = "search"
  /\ rq.hyb = "rejected" \/ rq.mem = "rejected"
  /\ rq' = Return(rq, SearchCatch)
  /\ UNCHANGED nonrq

\* await Promise.all([hybrid, memories]) resolves when both promises are
\* fulfilled
JoinReadyFirstOnly(r) == r.hyb = "fulfilled"

JoinReady(r) == r.hyb = "fulfilled" /\ r.mem = "fulfilled"

\* await Promise.all([...]) resolves: assemble, then compressContext
RJoin ==
  /\ rq.pc = "search"
  /\ JoinReady(rq)
  /\ LET docs == Assemble(rq.mres, rq.hres) IN
     rq' = IF Len(docs) > 0 /\ NeedsCompression(docs)
           THEN [rq EXCEPT !.pc = "compress", !.docs = docs, !.assembled = TRUE]
           ELSE Return([rq EXCEPT !.docs = docs, !.assembled = TRUE],
                       [threw |-> FALSE, result |-> docs])
  /\ UNCHANGED nonrq

\* compressContext: the model call settles; its catch returns the docs
RCompress ==
  /\ rq.pc = "compress"
  /\ \E ok \in BOOLEAN :
       rq' = Return(rq, [threw |-> FALSE,
                         result |-> IF ok THEN <<Compressed>> ELSE rq.docs])
  /\ UNCHANGED nonrq

(* searchRelevantContext, the older retrieval *)

LegacyTake == 3

\* findMany({where: {sessionId}, orderBy: {createdAt: "desc"}, take: 3})
\* reversed and mapped
RecentTurns(s) ==
  LET newest == TakeNewest({m \in messages : m.sessionId = s}, LegacyTake)
      ids == SortedIds({m.id : m \in newest})
  IN [i \in 1..Len(ids) |-> MessageDoc(ids[i])]

\* the catch of the embedding call: the session's own recent turns
RLegacyFallback ==
  /\ rq.pc = "legacy_fallback"
  /\ \E ok \in BOOLEAN :
       rq' = Return(rq, [threw |-> FALSE,
                         result |-> IF ok THEN RecentTurns(rq.sessionId) ELSE <<>>])
  /\ UNCHANGED nonrq

LegacyMessageScore == 600
LegacyMessageScan == 10
LegacyMessageLimit == 5
LegacyMemoryScore == 700
LegacyMemoryScan == 6
LegacyMemoryLimit == 3

\* the single query of searchRelevantContext: the nearest 10 message
\* embeddings of other sessions, of them those scoring >= 0.6, best 5; the
\* nearest 6 memory embeddings, of them those scoring >= 0.7, best 3
LegacyQuery(sessionId, q) ==
  LET me == {e \in msgEmb : e.sessionId # sessionId}
      mids == {e.messageId : e \in me}
      mscore == [i \in mids |->
                   SqlScore((CHOOSE e \in me : e.messageId = i).vector, q)]
      kids == {e.memoryId : e \in memEmb}
      kscore == [i \in kids |->
                   SqlScore((CHOOSE e \in memEmb : e.memoryId = i).vector, q)]
  IN UNION {
       {Assemble(ks, ms) :
          ms \in Limit(SortedDesc({i \in M : /\ mscore[i] >= LegacyMessageScore
                                            /\ \E m \in messages : m.id = i},
                                  mscore), LegacyMessageLimit),
          ks \in Limit(SortedDesc({i \in K : /\ kscore[i] >= LegacyMemoryScore
                                            /\ \E m \in memories : m.id = i},
                                  kscore), LegacyMemoryLimit)} :
       M \in TopK(mids, mscore, LegacyMessageScan),
       K \in TopK(kids, kscore, LegacyMemoryScan)}

\* toPgVectorString and the query, inside one try whose catch returns []
RLegacyQuery ==
  /\ rq.pc = "legacy_query"
  /\ \E ok \in BOOLEAN :
       IF ok /\ toPgVectorString(rq.vector).ok
       THEN \E res \in LegacyQuery(rq.sessionId, rq.vector) :
              rq' = Return(rq, [threw |-> FALSE, result |-> res])
       ELSE rq' = Return(rq, [threw |-> FALSE, result |-> <<>>])
  /\ UNCHANGED nonrq

(* ------------------------- SpecRetrieve -------------------------------- *)

InitRetrieve ==
  /\ \E M \in SUBSET (1..MaxStored), K \in {1..k : k \in 0..(MaxStored \div 2)} :
       /\ messages = {StoredMessage(i) : i \in M}
       /\ msgEmb = {StoredMsgEmb(i) : i \in M \ {6}}
       /\ memories = {StoredMemory(i) : i \in K}
       /\ memEmb = {StoredMemEmb(i) : i \in K}
       /\ sessions = {[id |-> s, by |-> "seed", updatedAt |-> MaxStored] :
                        s \in {StoredMessage(i).sessionId : i \in M \cup K}}
  /\ nextId = MaxStored + 1
  /\ TasksOff
  /\ rq = RqIdle
  /\ OtherCallsOff

NextRetrieve ==
  \/ RCall
  \/ REmbed
  \/ RHybridQuery
  \/ RHybridFallback
  \/ RMemQuery
  \/ RJoinRejected
  \/ RJoin
  \/ RCompress
  \/ RLegacyFallback
  \/ RLegacyQuery

SpecRetrieve == InitRetrieve /\ [][NextRetrieve]_vars

(* ------------------------- retrieval properties ------------------------ *)

\* the session that owns stored message i
SessionOfMessage(i) == (CHOOSE m \in messages : m.id = i).sessionId

\* the messages a semantic-only search may return for the call in progress:
\* stored, embedded, of another session, scoring at or above the threshold
\* the query classifier gave the hybrid query
Eligible ==
  {m.id : m \in {m \in messages :
     /\ m.sessionId # rq.sessionId
     /\ \E e \in msgEmb : /\ e.messageId = m.id
                          /\ SqlScore(e.vector, rq.vector) >= Params.semanticThreshold}}

ScoreOfMessage(i) ==
  SqlScore((CHOOSE e \in msgEmb : e.messageId = i).vector, rq.vector)

\* C6: searchRelevantContextEnhanced never throws: whichever of the
\* embedding call, the hybrid query, its semantic-only fallback, the memory
\* query and the compression call fail, the call does not raise to its
\* caller, and a failed search makes it return the empty list.
C6_RetrieveNeverThrows ==
  rq.variant = "enhanced" =>
    /\ ~rq.threw
    /\ (rq.pc = "done" /\ (rq.hyb = "rejected" \/ rq.embedThrew)) => rq.result = <<>>

\* a call that returned after the hybrid query and its fallback both failed
C6_Witness ==
  /\ rq.variant = "enhanced"
  /\ rq.pc = "done"
  /\ rq.hybridFailed
  /\ rq.hyb = "rejected"
  /\ rq.result = <<>>

\* C7: when the embedding call throws, retrieval returns the querying
\* session's own most recent turns, at most 3 and oldest first; the returned
\* context is non-empty whenever that session has a stored turn.
C7_EmbeddingFailureFallsBack ==
  (rq.pc = "done" /\ rq.embedThrew) =>
    /\ rq.result = RecentTurns(rq.sessionId)
    /\ (\E m \in messages : m.sessionId = rq.sessionId) => rq.result # <<>>

\* C8: after a failed hybrid query, the message search returns the result of
\* a semantic-only search over other sessions' messages: exactly the best
\* maxResults of the messages scoring at or above the hybrid query's
\* semanticThreshold, most similar first.
C8_FallbackIsSemanticOnly ==
  (rq.hybridFailed /\ rq.hyb = "fulfilled") =>
    /\ Range(rq.hres) \subseteq Eligible
    /\ Len(rq.hres) = Min(Params.maxResults, Cardinality(Eligible))
    /\ \A i, j \in 1..Len(rq.hres) :
         i < j => /\ rq.hres[i] # rq.hres[j]
                  /\ ScoreOfMessage(rq.hres[i]) >= ScoreOfMessage(rq.hres[j])
    /\ \A i \in Range(rq.hres), j \in Eligible \ Range(rq.hres) :
         ScoreOfMessage(i) >= ScoreOfMessage(j)

\* a fallback whose limit cut eligible messages off and whose threshold kept
\* another session's embedded message out
C8_Witness ==
  /\ rq.hybridFailed
  /\ rq.hyb = "fulfilled"
  /\ Len(rq.hres) = Params.maxResults
  /\ Eligible \ Range(rq.hres) # {}
  /\ \E e \in msgEmb : /\ e.sessionId # rq.sessionId
                       /\ e.messageId \notin Eligible

\* C9: every message the cross-session message search returns, from the
\* semantic side, from the keyword side and from the semantic-only fallback,
\* belongs to a session other than the one passed to retrieve.
C9_OnlyOtherSessions ==
  rq.hyb # "none" /\ rq.vector # NaNVec =>
    /\ \A i \in Range(rq.hres) : SessionOfMessage(i) # rq.sessionId
    /\ \A sem \in SemanticSide(rq.sessionId, rq.vector, Params) :
         \A i \in DOMAIN sem :
           \A e \in msgEmb : e.messageId = i => e.sessionId # rq.sessionId
    /\ \A kw \in KeywordSide(rq.sessionId, rq.words, Params) :
         \A i \in DOMAIN kw : SessionOfMessage(i) # rq.sessionId
    /\ \A res \in SemanticOnlyQuery(rq.sessionId, rq.vector, Params) :
         \A i \in Range(res) : SessionOfMessage(i) # rq.sessionId

\* a hybrid result while the querying session itself holds a message that
\* passes the semantic threshold and one that matches the keywords
C9_Witness ==
  /\ rq.hyb = "fulfilled"
  /\ ~rq.hybridFailed
  /\ Len(rq.hres) > 0
  /\ \E e \in msgEmb :
       /\ e.sessionId = rq.sessionId
       /\ SqlScore(e.vector, rq.vector) >= Params.semanticThreshold
  /\ \E m \in messages :
       /\ m.sessionId = rq.sessionId
       /\ KeywordRank(m.content, rq.words) >= Params.keywordThreshold
       /\ KeywordRank(m.content, rq.words) > 0

(* ---------------------------- token-manager ---------------------------- *)

MaxHistory == 6

\* countTokens(content) of the messages tried: a short and a long content
ContentTokens == {1, 6}

\* message.type as _getType() reports it
MessageTypes == {"system", "human"}

\* the histories tried; a message is known by its position in the input
Histories ==
  UNION {[1..n -> [type : MessageTypes, tokens : ContentTokens]] : n \in 0..MaxHistory}

TagPositions(h) ==
  [i \in 1..Len(h) |-> [pos |-> i, type |-> h[i].type, tokens |-> h[i].tokens]]

\* the budgets tried: around the sums of the message sizes
Budgets == {0, 4, 5, 9, 10, 11, 15, 19, 20, 25, 30, 40, 70}

MessageOverhead == 4

\* countMessageTokens: countTokens(content) + 4
countMessageTokens(m) == m.tokens + MessageOverhead

\* countMessagesTokens: the sum over the array
RECURSIVE countMessagesTokens(_)
countMessagesTokens(ms) ==
  IF ms = <<>> THEN 0
  ELSE countMessageTokens(ms[1]) + countMessagesTokens(Tail(ms))

\* the loop of truncateMessages from index i down, totalTokens so far:
\* break at the first message that would exceed maxTokens
RECURSIVE truncateFromKeepsNewest(_, _, _, _)
truncateFromKeepsNewest(ms, i, totalTokens, maxTokens) ==
  IF i = 0 THEN <<>>
  ELSE LET messageTokens == countMessageTokens(ms[i]) IN
       IF totalTokens + messageTokens > maxTokens /\ i < Len(ms) THEN <<>>
       ELSE Append(truncateFromKeepsNewest(ms, i - 1, totalTokens + messageTokens,
                                           maxTokens), ms[i])

RECURSIVE truncateFrom(_, _, _, _)
truncateFrom(ms, i, totalTokens, maxTokens) ==
  IF i = 0 THEN <<>>
  ELSE LET messageTokens == countMessageTokens(ms[i]) IN
       IF totalTokens + messageTokens > maxTokens THEN <<>>
       ELSE Append(truncateFrom(ms, i - 1, totalTokens + messageTokens, maxTokens),
                   ms[i])

\* truncateMessages: the newest messages that fit, oldest first
truncateMessages(ms, maxTokens) == truncateFrom(ms, Len(ms), 0, maxTokens)

IsSystem(m) == m.type = "system"

IsRegular(m) == m.type # "system"

KeepRecentCount == 4

\* regularMessages.slice(0, -keepRecentCount)
SliceOlder(ms, k) ==
  IF Len(ms) <= k THEN <<>> ELSE SubSeq(ms, 1, Len(ms) - k)

\* the recent branch with the loop skipping a message that does not fit
smartTruncateRecentFirstFit(systemMessages, recentMessages, available) ==
  LET fits == SelectSeq(recentMessages, LAMBDA m : countMessageTokens(m) <= available)
  IN systemMessages \o truncateMessages(fits, available)

\* "Even recent messages don't fit, truncate them"
smartTruncateRecent(systemMessages, recentMessages, available) ==
  systemMessages \o truncateMessages(recentMessages, available)

smartTruncateMessages(ms, maxTokens, keepRecentCount) ==
  IF Len(ms) = 0 THEN <<>>
  ELSE
  LET systemMessages == SelectSeq(ms, IsSystem)
      regularMessages == SelectSeq(ms, IsRegular)
      totalTokens == countMessagesTokens(systemMessages)
      recentMessages == SliceLast(regularMessages, keepRecentCount)
      recentTokens == countMessagesTokens(recentMessages)
      olderMessages == SliceOlder(regularMessages, keepRecentCount)
      remainingTokens == maxTokens - (totalTokens + recentTokens)
  IN IF totalTokens >= maxTokens
     THEN truncateMessages(systemMessages, maxTokens)
     ELSE IF totalTokens + recentTokens >= maxTokens
     THEN smartTruncateRecent(systemMessages, recentMessages, maxTokens - totalTokens)
     ELSE IF Len(olderMessages) > 0 /\ remainingTokens > 0
     THEN systemMessages \o truncateMessages(olderMessages, remainingTokens)
            \o recentMessages
     ELSE systemMessages \o recentMessages

\* smartTruncateMessages(messages, maxTokens) is called and returns
Truncate ==
  /\ tr.pc = "called"
  /\ tr' = [tr EXCEPT !.pc = "returned",
                      !.out = smartTruncateMessages(tr.history, tr.budget,
                                                    KeepRecentCount)]
  /\ UNCHANGED <<dbvars, taskvars, rq, svc, req>>

InitTruncate ==
  /\ StoreEmpty
  /\ TasksOff
  /\ rq = RqOff
  /\ svc = SvcOff
  /\ req = ReqOff
  /\ \E h \in Histories, b \in Budgets :
       tr = [pc |-> "called", history |-> TagPositions(h), budget |-> b, out |-> <<>>]

NextTruncate == Truncate

SpecTruncate == InitTruncate /\ [][NextTruncate]_vars

(* ------------------------ truncation properties ------------------------ *)

SystemOf(h) == SelectSeq(h, IsSystem)

\* the guaranteed set: the most recent min(4, n) non-system messages
RecentOf(h) == SliceLast(SelectSeq(h, IsRegular), KeepRecentCount)

Positions(ms) == {ms[i].pos : i \in 1..Len(ms)}

\* C11: the total token count of the output (content tokens plus the
\* per-message overhead) is at most the budget; when the system messages
\* alone exceed the budget the output holds system messages only, the newest
\* of them.
C11_WithinBudget ==
  tr.pc = "returned" =>
    /\ countMessagesTokens(tr.out) <= tr.budget
    /\ countMessagesTokens(SystemOf(tr.history)) > tr.budget =>
         /\ \A i \in 1..Len(tr.out) : IsSystem(tr.out[i])
         /\ \E k \in 0..Len(SystemOf(tr.history)) :
              tr.out = SliceLast(SystemOf(tr.history), k)

\* both cases: a history cut to its budget with room left for nothing more,
\* system messages kept in full
C11_Witness ==
  /\ tr.pc = "returned"
  /\ Len(tr.out) < Len(tr.history)
  /\ countMessagesTokens(tr.out) = tr.budget
  /\ SystemOf(tr.history) # <<>>
  /\ Positions(SystemOf(tr.history)) \subseteq Positions(tr.out)
  /\ Positions(RecentOf(tr.history)) \cap Positions(tr.out) # {}

\* C12 as stated: whenever each of the most recent min(4, n) non-system
\* messages fits within the budget on its own, the output contains all of
\* them.
C12_RecentKeptIfEachFits ==
  tr.pc = "returned" =>
    ((\A i \in 1..Len(RecentOf(tr.history)) :
         countMessageTokens(RecentOf(tr.history)[i]) <= tr.budget)
       => Positions(RecentOf(tr.history)) \subseteq Positions(tr.out))

\* C12 amended: the output contains all of the most recent min(4, n)
\* non-system messages whenever they fit within the budget together with the
\* system messages; otherwise it keeps the longest run of the newest of them
\* that fits in what the system messages leave, so messages of the set are
\* dropped oldest first and only when the set overflows.
C12_RecentKeptIfTheyFit ==
  tr.pc = "returned" =>
    LET sys == countMessagesTokens(SystemOf(tr.history))
        rec == RecentOf(tr.history)
        kept == SelectSeq(rec, LAMBDA m : m.pos \in Positions(tr.out))
        dropped == Len(rec) - Len(kept)
    IN /\ kept = SliceLast(rec, Len(kept))
       /\ sys + countMessagesTokens(rec) <= tr.budget => dropped = 0
       /\ dropped > 0 =>
            /\ sys + countMessagesTokens(rec) > tr.budget
            /\ sys + countMessagesTokens(kept)
                 + countMessageTokens(rec[dropped]) > tr.budget

\* the guaranteed set cut from its oldest end: something of it kept,
\* something dropped, each of its messages small enough alone
C12_Witness ==
  /\ tr.pc = "returned"
  /\ Positions(RecentOf(tr.history)) \cap Positions(tr.out) # {}
  /\ ~(Positions(RecentOf(tr.history)) \subseteq Positions(tr.out))
  /\ \A i \in 1..Len(RecentOf(tr.history)) :
       countMessageTokens(RecentOf(tr.history)[i]) <= tr.budget
  /\ \E i, j \in 1..Len(RecentOf(tr.history)) :
       RecentOf(tr.history)[i].tokens # RecentOf(tr.history)[j].tokens

\* C13: the kept messages are in the order they have in the input history,
\* also when a system message follows a non-system message.
C13_OrderPreserved ==
  tr.pc = "returned" =>
    \A i, j \in 1..Len(tr.out) : i < j => tr.out[i].pos < tr.out[j].pos

(* ----------------------- memory-row properties ------------------------- *)

\* C14: no two Memory rows of one session have identical content, after any
\* sequence of pipeline runs, also when an extracted batch repeats a fact.
C14_NoDuplicateMemories ==
  \A m1, m2 \in memories :
    (m1.sessionId = m2.sessionId /\ m1.content = m2.content) => m1.id = m2.id

\* C15: when the consolidate step rewrites an existing Memory with the
\* content that resolves a conflict, the finalFacts it hands to save do not
\* contain that content again.
C15_ResolvedFactsNotSavedAgain ==
  [][\A t \in Tasks :
       pc[t] = "consolidate_llm" =>
         \A m \in memories' \ memories : m.content \notin Range(facts'[t])]_vars

\* C16: every Memory row has content that is non-empty after trimming,
\* whatever the extraction and consolidation calls produce.
C16_ContentNotBlank ==
  \A m \in memories : Trim(m.content) # ""

(* ------------------------ vector-gate property ------------------------- *)

\* the Memory row that iteration i of task t's save loop created
RowOfFact(t, i) ==
  LET created == {j \in 1..i : saveLog[t][j] # "createFailed"}
      ids == SortedIds({m.id : m \in {m \in memories : m.by = t}})
  IN ids[Cardinality(created)]

Finite(v) == v # NaNVec

GateKeepsStore ==
  /\ \A e \in msgEmb \cup memEmb : Finite(e.vector)
  /\ \A t \in Tasks :
       /\ \A e \in tx[t].emb : Finite(e.vector)
       /\ tx[t].rejected =>
            /\ ~tx[t].aborted
            /\ tx[t].emb = {}
            /\ \E m \in tx[t].msgs : m.role = "human"
       /\ \A i \in 1..Len(saveLog[t]) :
            saveLog[t][i] = "gateRejected" =>
              /\ \E m \in memories :
                   /\ m.id = RowOfFact(t, i)
                   /\ m.content = facts[t][i]
              /\ \A e \in memEmb : e.memoryId # RowOfFact(t, i)

GateKeepsTurn ==
  \A t \in Tasks :
    (tx[t].rejected /\ pc[t] = "tx_commit" /\ pc'[t] = "fetch") =>
      /\ tx[t].msgs \subseteq messages'
      /\ Cardinality(tx[t].msgs) = 2
      /\ \A m \in tx[t].msgs : \A e \in msgEmb' : e.messageId # m.id

\* C17: no vector with a non-finite component is ever written to
\* message_embeddings or memory_embeddings; when the gate rejects a vector
\* only that embedding write is abandoned: the transaction of the turn is
\* not aborted and commits both messages without an embedding, and the
\* Memory row of the fact stays in the store without an embedding.
C17_GateRejectsNonFinite == []GateKeepsStore /\ [][GateKeepsTurn]_vars

\* a finished save whose first fact was rejected by the gate and whose
\* second fact was stored with its embedding
C17_Witness ==
  \E t \in Tasks :
    /\ stagesDone[t] = Stages
    /\ entry[t] = "background"
    /\ Len(saveLog[t]) >= 2
    /\ saveLog[t][1] = "gateRejected"
    /\ saveLog[t][2] = "saved"
    /\ \E e \in memEmb : e.memoryId = RowOfFact(t, 2)

(* --------------------------- POST /api/chat ---------------------------- *)

\* most chunks the agent's response is split into
MaxChunks == 3

\* everything a request leaves alone
nonreq == <<dbvars, taskvars, rq, tr, svc>>

\* a request arrives
ReqStart ==
  [pc |-> "received", response |-> 0, thinking |-> FALSE, sent |-> 0,
   aborted |-> FALSE, abortedEarly |-> FALSE, scheduled |-> 0, bg |-> "none",
   logged |-> "none"]

\* controller.enqueue on the stream: a cancelled stream makes it throw
EnqueueThrows(r) == r.aborted

\* the response is produced in full: every chunk has been enqueued
FullyProduced(r) == r.pc = "stream" /\ r.sent = r.response

\* the place of the after(...) call: behind the chunk loop
SchedulePointInLoop(r) == r.pc = "stream" /\ r.sent > 0

SchedulePoint(r) == FullyProduced(r)

\* validation and rate limiting: an error response, or the stream starts
ReqAccept ==
  /\ req.pc = "received"
  /\ \E ok \in BOOLEAN :
       req' = [req EXCEPT !.pc = IF ok THEN "history" ELSE "refused"]
  /\ UNCHANGED nonreq

\* const history = await getMemoryForSession(sessionId)
ReqHistory ==
  /\ req.pc = "history"
  /\ \E ok \in BOOLEAN :
       req' = [req EXCEPT !.pc = IF ok THEN "retrieve" ELSE "catch"]
  /\ UNCHANGED nonreq

\* contextMessages: searchRelevantContextEnhanced or []
ReqRetrieve ==
  /\ req.pc = "retrieve"
  /\ req' = [req EXCEPT !.pc = "agent"]
  /\ UNCHANGED nonreq

\* await agentGraph.invoke(...): finalResponse (possibly empty) and thinking
ReqAgent ==
  /\ req.pc = "agent"
  /\ \/ req' = [req EXCEPT !.pc = "catch"]
     \/ \E n \in 0..MaxChunks, th \in BOOLEAN :
          req' = [req EXCEPT !.response = n, !.thinking = th,
                             !.pc = IF th THEN "thinking" ELSE "stream"]
  /\ UNCHANGED nonreq

\* controller.enqueue(thinkingData)
ReqThinking ==
  /\ req.pc = "thinking"
  /\ req' = [req EXCEPT !.pc = IF EnqueueThrows(req) THEN "catch" ELSE "stream"]
  /\ UNCHANGED nonreq

\* one pass of the chunk loop: controller.enqueue(chunk)
ReqChunk ==
  /\ req.pc = "stream"
  /\ req.sent < req.response
  /\ req' = IF EnqueueThrows(req) THEN [req EXCEPT !.pc = "catch"]
            ELSE [req EXCEPT !.sent = @ + 1]
  /\ UNCHANGED nonreq

\* if (accumulatedResponse && sessionId) after(async () => {...})
ReqSchedule ==
  /\ SchedulePoint(req)
  /\ req' = IF req.response > 0
            THEN [req EXCEPT !.scheduled = @ + 1, !.bg = "pending", !.pc = "marker"]
            ELSE [req EXCEPT !.pc = "marker"]
  /\ UNCHANGED nonreq

\* controller.enqueue("data: [DONE]"), metrics, controller.close()
ReqDone ==
  /\ req.pc = "marker"
  /\ req' = [req EXCEPT !.pc = IF EnqueueThrows(req) THEN "catch" ELSE "closed"]
  /\ UNCHANGED nonreq

\* the catch of start(): log, enqueue the error, close
ReqCatch ==
  /\ req.pc = "catch"
  /\ req' = [req EXCEPT !.pc = IF EnqueueThrows(req) THEN "errored" ELSE "closed",
                        !.logged = "stream"]
  /\ UNCHANGED nonreq

\* the client goes away: the stream is cancelled
ReqAbort ==
  /\ ~req.aborted
  /\ req.pc \notin {"received", "refused", "closed", "errored"}
  /\ req' = [req EXCEPT !.aborted = TRUE,
                        !.abortedEarly = req.pc \in {"history", "retrieve", "agent",
                                                      "thinking", "catch"}
                                           \/ (req.pc = "stream" /\ ~FullyProduced(req))]
  /\ UNCHANGED nonreq

\* after(): the callback starts once the response has finished
BgStart ==
  /\ req.bg = "pending"
  /\ req.pc \in {"closed", "errored"}
  /\ req' = [req EXCEPT !.bg = "running"]
  /\ UNCHANGED nonreq

\* the callback: processMemoryInBackground resolves, or it rejects and the
\* catch of the callback logs
BgFinish ==
  /\ req.bg = "running"
  /\ \E ok \in BOOLEAN :
       req' = [req EXCEPT !.bg = IF ok THEN "completed" ELSE "logged",
                          !.logged = IF ok THEN @ ELSE "after"]
  /\ UNCHANGED nonreq

InitRequest ==
  /\ StoreEmpty
  /\ TasksOff
  /\ rq = RqOff
  /\ tr = TrOff
  /\ svc = SvcOff
  /\ req = ReqStart

\* the steps of the handler and of the callback
ReqProgram ==
  \/ ReqAccept
  \/ ReqHistory
  \/ ReqRetrieve
  \/ ReqAgent
  \/ ReqThinking
  \/ ReqChunk
  \/ ReqSchedule
  \/ ReqDone
  \/ ReqCatch
  \/ BgStart
  \/ BgFinish

NextRequest == ReqProgram \/ ReqAbort

\* the handler and the callback keep running; the client need not abort
SpecRequest == InitRequest /\ [][NextRequest]_vars /\ WF_vars(ReqProgram)

(* ------------------------- scheduling property ------------------------- *)

ScheduledOnceAfterResponse ==
  /\ req.scheduled <= 1
  /\ req.scheduled > 0 =>
       /\ req.response > 0
       /\ req.sent = req.response
       /\ ~req.abortedEarly
  /\ req.bg # "none" <=> req.scheduled = 1
  /\ req.bg \in {"running", "completed", "logged"} => req.pc \in {"closed", "errored"}
  /\ req.bg = "logged" => req.logged = "after"

NeverCancelled ==
  /\ req'.scheduled >= req.scheduled
  /\ req.bg # "none" => req'.bg # "none"
  /\ req.bg \in {"completed", "logged"} => req'.bg = req.bg
  /\ req.bg = "running" => req'.bg # "pending"
  /\ (~req.aborted /\ req'.aborted) => req'.bg = req.bg

\* C18: processMemoryInBackground is scheduled at most once per request and
\* only when every chunk of a non-empty response has been enqueued; a
\* request that failed or was aborted before that never schedules it; once
\* scheduled it is never cancelled, also by a later abort, and it runs to
\* completion or to a logged failure.
C18_ScheduledOnceAfterResponse ==
  /\ []ScheduledOnceAfterResponse
  /\ [][NeverCancelled]_vars
  /\ (req.bg = "pending" ~> req.bg \in {"completed", "logged"})

\* the callback completed for a request the client aborted after the last
\* chunk
C18_Witness ==
  /\ req.bg = "completed"
  /\ req.aborted
  /\ req.pc = "errored"
  /\ req.response = MaxChunks

(* ------------------------ LocalEmbeddingService ------------------------ *)

\* most embedText calls one caller issues
MaxCalls == 2

\* the concurrent callers of embedText
Callers == {"a", "b"}

\* everything the embedding service leaves alone
nonsvc == <<dbvars, taskvars, rq, tr, req>>

\* the singleton before its first use: modelLoaded = false, pipeline = null;
\* inits counts the pipelines created, handle 0 is null
SvcStart ==
  [pc |-> [c \in Callers |-> "idle"], calls |-> [c \in Callers |-> 0],
   used |-> [c \in Callers |-> 0], result |-> [c \in Callers |-> "none"],
   modelLoaded |-> FALSE, pipeline |-> 0, inits |-> 0]

\* ensureModelLoaded: if (this.modelLoaded && this.pipeline) return
IsLoaded(s) == s.modelLoaded /\ s.pipeline # 0

\* embedText(text) is called: blank text returns [] at once; otherwise
\* ensureModelLoaded runs up to its first await
EmbedCall(c) ==
  /\ svc.pc[c] \in {"idle", "done"}
  /\ svc.calls[c] < MaxCalls
  /\ \E blank \in BOOLEAN :
       svc' = [svc EXCEPT !.calls[c] = @ + 1,
                          !.used[c] = 0,
                          !.result[c] = IF blank THEN "empty" ELSE "none",
                          !.pc[c] = IF blank THEN "done"
                                    ELSE IF IsLoaded(svc) THEN "use"
                                    ELSE "import"]
  /\ UNCHANGED nonsvc

\* await import("@xenova/transformers") settles; pipeline(...) is started
EnsureImport(c) ==
  /\ svc.pc[c] = "import"
  /\ \E ok \in BOOLEAN :
       svc' = [svc EXCEPT !.pc[c] = IF ok THEN "loading" ELSE "done",
                          !.result[c] = IF ok THEN @ ELSE "threw"]
  /\ UNCHANGED nonsvc

\* await pipeline("feature-extraction", modelName) settles: the new pipeline
\* is stored and modelLoaded set
EnsureLoad(c) ==
  /\ svc.pc[c] = "loading"
  /\ \E ok \in BOOLEAN :
       svc' = IF ok
              THEN [svc EXCEPT !.inits = @ + 1, !.pipeline = svc.inits + 1,
                               !.modelLoaded = TRUE, !.pc[c] = "use"]
              ELSE [svc EXCEPT !.pc[c] = "done", !.result[c] = "threw"]
  /\ UNCHANGED nonsvc

\* if (!this.pipeline) return []; await this.pipeline(text, ...)
EmbedUse(c) ==
  /\ svc.pc[c] = "use"
  /\ \E ok \in BOOLEAN :
       svc' = [svc EXCEPT !.pc[c] = "done",
                          !.used[c] = svc.pipeline,
                          !.result[c] = IF svc.pipeline = 0 THEN "empty"
                                        ELSE IF ok THEN "vector" ELSE "threw"]
  /\ UNCHANGED nonsvc

InitEmbed ==
  /\ StoreEmpty
  /\ TasksOff
  /\ rq = RqOff
  /\ tr = TrOff
  /\ req = ReqOff
  /\ svc = SvcStart

NextEmbed ==
  \E c \in Callers :
    \/ EmbedCall(c)
    \/ EnsureImport(c)
    \/ EnsureLoad(c)
    \/ EmbedUse(c)

SpecEmbed == InitEmbed /\ [][NextEmbed]_vars

\* C19: across any interleaving of concurrent embedText calls the embedding
\* model is initialized at most once, and every call uses that one pipeline.
C19_ModelInitializedOnce ==
  /\ svc.inits <= 1
  /\ \A c \in Callers : svc.used[c] \in {0, 1}

(* ----------------------- partial-failure property ---------------------- *)

\* C20: when exactly one of the hybrid message search and the memory search
\* fails, the context retrieval returns still holds the results of the
\* search that succeeded.
C20_KeepsWhatSucceeded ==
  (rq.variant = "enhanced" /\ rq.pc = "done" /\ rq.result # <<Compressed>>) =>
    /\ (rq.hyb = "fulfilled" /\ rq.mem = "rejected") =>
         \A i \in Range(rq.hres) : MessageDoc(i) \in Range(rq.result)
    /\ (rq.hyb = "rejected" /\ rq.mem = "fulfilled" /\ rq.mres # <<>>) =>
         Digest(rq.mres) \in Range(rq.result)

(* --------------------------- session clock ----------------------------- *)

\* C21: a session's updatedAt is never older than the createdAt of its
\* newest turn: every successful saveToMemory, also for a session that
\* already exists, refreshes the session's updatedAt.
C21_UpdatedAtFollowsTurns ==
  \A r \in sessions : \A m \in messages :
    m.sessionId = r.id => r.updatedAt >= m.createdAt

(* ------------------------ threshold arithmetic ------------------------- *)

\* the embedded messages of other sessions whose raw cosine similarity to
\* the query vector of the call in progress is 0.68
Cosine680 ==
  {e \in msgEmb : /\ e.sessionId # rq.sessionId
                  /\ Cosine(e.vector, rq.vector) = 680}

\* C22: for a one-word query (Simple tier, semanticThreshold 0.78) a message
\* of another session whose raw cosine similarity to the query is 0.68 is
\* excluded from the semantic results, and for a 20-word query (Complex
\* tier) the same message is among them.
C22_Cosine680ExcludedAtSimple ==
  (rq.variant = "enhanced" /\ rq.hyb = "query") =>
    \A e \in Cosine680 :
      /\ rq.words = 1 =>
           \A sem \in SemanticSide(rq.sessionId, rq.vector, Params) :
             e.messageId \notin DOMAIN sem
      /\ rq.words = 20 =>
           \A sem \in SemanticSide(rq.sessionId, rq.vector, Params) :
             e.messageId \in DOMAIN sem

(* --------------------------- the search join --------------------------- *)

\* C23: in retrieve the hybrid message search and the memory search are
\* started together, before either result is awaited, and the context is
\* assembled (digest, message list, compression) only after both searches
\* have completed, in whichever order they complete.
C23_AssembleAfterBothSearches ==
  rq.variant = "enhanced" =>
    /\ rq.hyb = "none" <=> rq.mem = "none"
    /\ (rq.assembled \/ rq.pc = "compress" \/ rq.docs # <<>>) =>
         rq.hyb = "fulfilled" /\ rq.mem = "fulfilled"

\* the context was assembled from a memory and from messages the
\* semantic-only fallback found after the hybrid query had failed
C23_Witness ==
  /\ rq.variant = "enhanced"
  /\ rq.assembled
  /\ rq.hybridFailed
  /\ rq.mres # <<>>
  /\ rq.hres # <<>>

(* ----------------------- persist before pipeline ----------------------- *)

\* the ids of the two turns the saveToMemory call of task t stored
OwnTurns(t) == {m.id : m \in RowsBy(t).msgs}

EmbeddingRowsKept ==
  /\ memEmb \subseteq memEmb'
  /\ msgEmb \subseteq msgEmb'
  /\ \A e \in memEmb' \ memEmb : \A x \in memEmb : x.memoryId # e.memoryId
  /\ \A e \in msgEmb' \ msgEmb : \A x \in msgEmb : x.messageId # e.messageId

\* a step changes of a stored Memory row nothing but its content
MemoryRowsKeepAllButContent ==
  \A m \in memories : \E n \in memories' : n = [m EXCEPT !.content = n.content]

\* C25: an Embedding row is never modified after it is created: the
\* in-place update of Consolidate changes only the content of the Memory
\* row and leaves its memory_embeddings row as it was, and no pipeline stage
\* updates or deletes a message_embeddings row.
C25_EmbeddingRowsImmutable ==
  [][EmbeddingRowsKept /\ MemoryRowsKeepAllButContent]_vars

\* Consolidate rewrote the content of a stored memory that has an embedding
C25_Witness ==
  \E m \in memories : \E o \in SeedMemories : \E e \in memEmb :
    /\ o.id = m.id
    /\ m.content # o.content
    /\ e.memoryId = m.id
    /\ e \in SeedMemEmb

(* ------------------------- SpecValidate -------------------------------- *)

\* most memories of one session in the store validateMemories runs against
MaxSessionMemories == 21

\* a session's memories, oldest first: the oldest holds fact x, the newest
\* holds y, the ones between hold other text
SessionRows(n, x, y) ==
  {[id |-> i, sessionId |-> "s1", by |-> "seed",
    content |-> IF i = 1 THEN x ELSE IF i = n THEN y ELSE "g"] : i \in 1..n}

\* a memory of another session that holds fact f1
ForeignRow(n) == [id |-> n + 1, sessionId |-> "s2", content |-> "f1", by |-> "seed"]

\* graph.invoke has run extract, which returned a fact list; the store holds
\* 1, 20 or more than 20 memories of the session
InitValidate ==
  /\ \E n \in {1, ValidateTake, MaxSessionMemories}, x \in Facts,
        y \in {"g", "F1", "f2"}, foreign \in BOOLEAN :
       /\ memories = SessionRows(n, x, y)
                       \cup (IF foreign THEN {ForeignRow(n)} ELSE {})
       /\ nextId = n + 2
  /\ memEmb = {}
  /\ messages = {}
  /\ msgEmb = {}
  /\ sessions = {[id |-> s, by |-> "seed", updatedAt |-> 0] : s \in Sessions}
  /\ pc = [t \in Tasks |-> "validate"]
  /\ sid = [t \in Tasks |-> "s1"]
  /\ entry = [t \in Tasks |-> "graph"]
  /\ tx = [t \in Tasks |-> NoTx]
  /\ recent = [t \in Tasks |-> <<>>]
  /\ \E f \in FactLists : facts = [t \in Tasks |-> f]
  /\ relevant = [t \in Tasks |-> {}]
  /\ saveIdx = [t \in Tasks |-> 0]
  /\ stagesRun = [t \in Tasks |-> <<"extract">>]
  /\ stagesDone = [t \in Tasks |-> <<"extract">>]
  /\ llmCalls = [t \in Tasks |-> <<>>]
  /\ threw = [t \in Tasks |-> "none"]
  /\ saveLog = [t \in Tasks |-> <<>>]
  /\ logged = [t \in Tasks |-> "none"]
  /\ rq = RqOff
  /\ OtherCallsOff

NextValidate == \E t \in Tasks : Validate(t)

SpecValidate == InitValidate /\ [][NextValidate]_vars

\* the session's 20 most recently created memories
NewestTwenty(s) ==
  {m \in memories :
     /\ m.sessionId = s
     /\ Cardinality({o \in memories : o.sessionId = s /\ o.id > m.id}) < 20}

\* the positions of list f whose fact equals no content of rows
KeptPositions(f, rows) ==
  {i \in 1..Len(f) : \A m \in rows : m.content # f[i]}

\* list g holds the facts of f at positions K, in the order of f
IsSelection(g, f, K) ==
  /\ Len(g) = Cardinality(K)
  /\ \A k \in 1..Len(g) :
       \E i \in K : /\ g[k] = f[i]
                    /\ Cardinality({j \in K : j < i}) = k - 1

\* validate returned in this step
ValidateReturned(t) == pc[t] = "validate" /\ pc'[t] = "consolidate"

\* C26: Validate returns exactly those incoming facts, in their original
\* order, whose string is not equal to the content of any of the session's
\* 20 most recently created Memories (exact string equality only), and it
\* changes no stored row.
C26_ValidateFiltersExactMatches ==
  [][\A t \in Tasks :
       ValidateReturned(t) =>
         /\ IsSelection(facts'[t], facts[t],
                        KeptPositions(facts[t], NewestTwenty(sid[t])))
         /\ UNCHANGED dbvars]_vars

\* validate returned the list with f1, which only the session's oldest of 21
\* memories and a memory of another session hold, and without f2, which the
\* newest holds
C26_Witness ==
  \E t \in Tasks :
    /\ pc[t] = "consolidate"
    /\ facts[t] = <<"f1">>
    /\ Cardinality(SessionMemories(sid[t])) > ValidateTake
    /\ \E m \in SessionMemories(sid[t]) : m.content = "f1"
    /\ \E m \in SessionMemories(sid[t]) : m.content = "f2"
    /\ \E m \in memories : m.sessionId # sid[t] /\ m.content = "f1"

(* ----------------------------- score fusion ---------------------------- *)

\* the semantic score message i passes the semantic threshold with, or 0
SemanticPass(i) ==
  IF \E e \in msgEmb : /\ e.messageId = i
                       /\ SqlScore(e.vector, rq.vector) >= Params.semanticThreshold
  THEN ScoreOfMessage(i) ELSE 0

\* the keyword rank message i passes the keyword threshold with, or 0
KeywordPass(i) ==
  LET rank == KeywordRank(MessageById(i).content, rq.words)
  IN IF rank > 0 /\ rank >= Params.keywordThreshold THEN rank ELSE 0

\* C27: every message in the hybrid result carries the fused score
\* 0.7 * semanticScore + 0.3 * keywordRank, where a side on which the message
\* did not pass that side's threshold contributes 0 (and a side on which it
\* passed contributes its score); the result is ordered by fused score
\* descending and holds at most maxResults messages.
C27_FusedScoreOfBothSides ==
  (rq.hyb = "fulfilled" /\ ~rq.hybridFailed) =>
    /\ Len(rq.hrows) <= Params.maxResults
    /\ \A k \in 1..Len(rq.hrows) :
         LET row == rq.hrows[k] IN
         /\ row.semantic_score = SemanticPass(row.id)
         /\ row.keyword_rank = KeywordPass(row.id)
         /\ row.combined_score = 7 * row.semantic_score + 3 * row.keyword_rank
    /\ \A j, k \in 1..Len(rq.hrows) :
         j < k => rq.hrows[j].combined_score >= rq.hrows[k].combined_score

(* --------------------------- SpecClassify ------------------------------ *)

\* most words of the queries classified
MaxWords == 17

\* a query string is the sequence of its characters; "w" stands for any
\* character that is not whitespace
IsSpace(c) == c \in {" ", "\t"}

Repeat(c, n) == [i \in 1..n |-> c]

\* n one-letter words with separator sep between them
RECURSIVE Words(_, _)
Words(n, sep) ==
  IF n = 0 THEN <<>>
  ELSE IF n = 1 THEN <<"w">>
  ELSE Words(n - 1, sep) \o sep \o <<"w">>

\* the query strings tried: 0..MaxWords words, separated by one blank, two
\* blanks or a tab, with or without a leading and a trailing blank
Queries ==
  {Repeat(" ", lead) \o Words(n, sep) \o Repeat(" ", trail) :
     lead \in 0..1, trail \in 0..1, n \in 0..MaxWords,
     sep \in {<<" ">>, <<" ", " ">>, <<"\t">>}}

\* String.prototype.trim
RECURSIVE trimStart(_)
trimStart(q) ==
  IF q # <<>> /\ IsSpace(Head(q)) THEN trimStart(Tail(q)) ELSE q

trimNothing(q) == q

trim(q) == Reverse(trimStart(Reverse(trimStart(q))))

\* q.split(/\s+/): the pieces between the maximal runs of whitespace, an
\* empty piece before a leading and after a trailing run included; the
\* empty string gives one empty piece
RECURSIVE splitFrom(_, _, _)
splitFrom(q, piece, inRun) ==
  IF q = <<>> THEN <<piece>>
  ELSE IF IsSpace(Head(q))
  THEN IF inRun THEN splitFrom(Tail(q), piece, TRUE)
       ELSE <<piece>> \o splitFrom(Tail(q), <<>>, TRUE)
  ELSE splitFrom(Tail(q), Append(piece, Head(q)), FALSE)

split(q) == splitFrom(q, <<>>, FALSE)

\* const words = query.trim().split(/\s+/); const tokenCount = words.length
tokenCount(query) == Len(split(trim(query)))

ClassifyStart(q) == [pc |-> "classify", query |-> q]

\* analyzeQueryComplexity(query) returns
Classify ==
  /\ rq.pc = "classify"
  /\ rq' = [pc |-> "classified", query |-> rq.query,
            tokenCount |-> tokenCount(rq.query),
            params |-> analyzeQueryComplexity(tokenCount(rq.query))]
  /\ UNCHANGED nonrq

InitClassify ==
  /\ StoreEmpty
  /\ TasksOff
  /\ \E q \in Queries : rq = ClassifyStart(q)
  /\ OtherCallsOff

NextClassify == Classify

SpecClassify == InitClassify /\ [][NextClassify]_vars

\* the number of whitespace-separated tokens of q: the positions where a
\* run of non-whitespace characters begins
WhitespaceTokens(q) ==
  Cardinality({i \in 1..Len(q) :
                 /\ ~IsSpace(q[i])
                 /\ i = 1 \/ IsSpace(q[i - 1])})

\* C28: classify assigns the tier from the whitespace-token count of the
\* query: at most 5 gives Simple, 6 to 15 gives Medium, more than 15 gives
\* Complex, for every query string.
C28_TierByTokenCount ==
  rq.pc = "classified" =>
    LET n == WhitespaceTokens(rq.query)
    IN rq.params.complexity =
         IF n <= 5 THEN "simple" ELSE IF n <= 15 THEN "medium" ELSE "complex"

\* a query of five words that begins with a blank was classified Simple
C28_Witness ==
  /\ rq.pc = "classified"
  /\ WhitespaceTokens(rq.query) = 5
  /\ IsSpace(rq.query[1])
  /\ rq.params.complexity = "simple"

(* ------------------------- compression cut-over ------------------------ *)

\* C29: compressContext issues its LLM call only when the total character
\* length of the fused context exceeds the 8,000-character cut-over; for a
\* context at or below that length it makes no LLM call and returns its
\* input messages unchanged.
C29_CompressOnlyAboveCutOver ==
  rq.variant = "enhanced" =>
    /\ rq.pc = "compress" => TotalChars(rq.docs) > CompressCutOver
    /\ (rq.pc = "done" /\ rq.assembled /\ TotalChars(rq.docs) <= CompressCutOver) =>
         rq.result = rq.docs

(* ------------------------- scope of the rewrite ------------------------ *)

\* C30: Consolidate only ever rewrites Memory rows that belong to the
\* pipeline's own session and were among the relevant memories presented to
\* the consolidation LLM call; a conflict that names any other memory id,
\* whatever the LLM returns, changes no row.
C30_RewritesOnlyRelevantRows ==
  [][\A m \in memories :
       m \notin memories' =>
         \E t \in Tasks : /\ pc[t] = "consolidate_llm"
                          /\ m.sessionId = sid[t]
                          /\ m.id \in relevant[t]]_vars
====
